---- MODULE Spec2Model ----
(***************************************************************************)
(* Legal-document field extraction: the model-reply parser and retry      *)
(* orchestrator (src/src/llm_extractor.py), the field validator           *)
(* (src/src/validator.py), the text cleaner (src/src/text_cleaner.py),    *)
(* the database (src/src/database.py) and the pipelines that join them    *)
(* (src/main.py, src/api/main.py).                                        *)
(*                                                                         *)
(* A Python str is a sequence of one-character strings.  None is the      *)
(* sequence holding the single token "<None>", which is no character.     *)
(***************************************************************************)
EXTENDS Integers, Sequences, FiniteSets, TLC

None == <<"<None>">>

\* ------------------------------------------------------------------------
\* Python str primitives
\* ------------------------------------------------------------------------

\* str.isspace() for the characters of the model's alphabets
IsSpace(c) == c \in {" ", "\t", "\n", "\r"}

IsDigit(c) == c \in {"0", "1", "2", "3", "4", "5", "6", "7", "8", "9"}

UpperCase == <<"A","B","C","D","E","F","G","H","I","J","K","L","M",
               "N","O","P","Q","R","S","T","U","V","W","X","Y","Z">>

LowerCase == <<"a","b","c","d","e","f","g","h","i","j","k","l","m",
               "n","o","p","q","r","s","t","u","v","w","x","y","z">>

\* [A-Za-z]
IsAlpha(c) == \E i \in 1..Len(UpperCase) : c = UpperCase[i] \/ c = LowerCase[i]

\* str.lower()
Lower(s) ==
    [i \in 1..Len(s) |->
       IF \E j \in 1..Len(UpperCase) : UpperCase[j] = s[i]
       THEN LowerCase[CHOOSE j \in 1..Len(UpperCase) : UpperCase[j] = s[i]]
       ELSE s[i]]

\* s.startswith(p, i-1) with a 1-based i
MatchAt(s, i, p) ==
    /\ i + Len(p) - 1 <= Len(s)
    /\ \A k \in 1..Len(p) : s[i + k - 1] = p[k]

\* p in s
Contains(s, p) == \E i \in 1..(Len(s) + 1) : MatchAt(s, i, p)

\* min(P) and max(P) of a non-empty set of numbers
Min(P) == CHOOSE p \in P : \A q \in P : p <= q

Max(P) == CHOOSE p \in P : \A q \in P : p >= q

\* str.strip(): the span between the first and the last non-space character
Strip(s) ==
    LET Span(ns) == IF ns = {} THEN <<>> ELSE SubSeq(s, Min(ns), Max(ns))
    IN  Span({i \in 1..Len(s) : ~IsSpace(s[i])})

\* "".join(pieces)
Flatten(pieces) ==
    LET RECURSIVE ConcatRange(_, _)
        ConcatRange(lo, hi) ==
            IF lo > hi THEN <<>>
            ELSE IF lo = hi THEN pieces[lo]
            ELSE ConcatRange(lo, (lo + hi) \div 2)
                 \o ConcatRange((lo + hi) \div 2 + 1, hi)
    IN  ConcatRange(1, Len(pieces))

\* the k-th smallest element of a set of numbers
Nth(P, k) == CHOOSE p \in P : Cardinality({q \in P : q < p}) = k - 1

\* str.replace(old, new) for the patterns the program replaces, none of
\* which can overlap itself: every occurrence of old is replaced
Replace(s, old, new) ==
    Flatten([i \in 1..Len(s) |->
               IF MatchAt(s, i, old) THEN new
               ELSE IF \E j \in (i - Len(old) + 1)..(i - 1) : j >= 1 /\ MatchAt(s, j, old)
               THEN <<>>
               ELSE <<s[i]>>])

\* str.split(sep) for a one-character sep: the pieces between the positions
\* P, n of them, that hold the separator
Split(s, sep) ==
    LET SplitAt(P, n) ==
            [k \in 1..(n + 1) |->
               SubSeq(s, IF k = 1 THEN 1 ELSE Nth(P, k - 1) + 1,
                         IF k = n + 1 THEN Len(s) ELSE Nth(P, k) - 1)]
    IN  SplitAt({i \in 1..Len(s) : s[i] = sep},
                Cardinality({i \in 1..Len(s) : s[i] = sep}))

\* sep.join(parts)
Join(parts, sep) ==
    Flatten([i \in 1..(2 * Len(parts) - 1) |->
               IF i % 2 = 1 THEN parts[(i + 1) \div 2] ELSE sep])

\* str.split() without argument: the maximal runs of non-space characters
SplitWS(s) ==
    SelectSeq(Split([i \in 1..Len(s) |-> IF IsSpace(s[i]) THEN " " ELSE s[i]], " "),
              LAMBDA x : x # <<>>)

\* ' '.join(value.split())
CollapseWS(s) == Join(SplitWS(s), <<" ">>)

\* str.splitlines(): breaks at \n, \r and \r\n, no empty last line
SplitLines(s) ==
    LET \* where the line break that starts at position i ends
        BreakEnd(i) == IF s[i] = "\r" /\ i < Len(s) /\ s[i + 1] = "\n" THEN i + 1 ELSE i
        \* the lines between the line breaks that start at the positions P
        LinesAt(P, n) ==
            [k \in 1..(IF n = 0 THEN (IF Len(s) > 0 THEN 1 ELSE 0)
                       ELSE IF BreakEnd(Nth(P, n)) < Len(s) THEN n + 1 ELSE n) |->
               SubSeq(s, IF k = 1 THEN 1 ELSE BreakEnd(Nth(P, k - 1)) + 1,
                         IF k = n + 1 THEN Len(s) ELSE Nth(P, k) - 1)]
        \* the positions where a line break starts
        BreakStarts ==
            {i \in 1..Len(s) : /\ s[i] \in {"\n", "\r"}
                               /\ ~(s[i] = "\n" /\ i > 1 /\ s[i - 1] = "\r")}
    IN  LinesAt(BreakStarts, Cardinality(BreakStarts))

\* s.count(c) for a one-character c
Count(s, c) == Cardinality({i \in 1..Len(s) : s[i] = c})

\* ------------------------------------------------------------------------
\* csv.reader, csv.DictReader and csv.writer (excel dialect)
\* ------------------------------------------------------------------------

\* next(reader) on the text from position i, whose last character is \n:
\* the record read ("row"), the end of the input ("stop") or csv.Error
\* ("error").  In the START_RECORD state a line break is eaten without
\* saving a field.
ReaderNext(text, i) ==
    LET \* the reader in the EAT_CRNL state at position r, the first that
        \* holds no \r: the \n that ends the line ends the record, any other
        \* character is the csv.Error "new-line character seen in unquoted
        \* field"
        EndRecord(r, fields) ==
            IF text[r] = "\n" THEN [kind |-> "row", row |-> fields, next |-> r + 1]
            ELSE [kind |-> "error", row |-> <<>>, next |-> r]
        \* the reader in the EAT_CRNL state at position q: further \r are eaten
        EatCrNl(q, fields) ==
            EndRecord(Min({x \in q..Len(text) : text[x] # "\r"}), fields)
        \* the first position >= p that ends an unquoted field
        FieldEnd(p) == Min({e \in p..Len(text) : text[e] \in {",", "\n", "\r"}})
        \* the first position of the run of quotes position j > p lies in,
        \* counted from p + 1
        QuoteRunStart(p, j) ==
            Min({a \in (p + 1)..j : \A k \in a..j : text[k] = "\""})
        \* text[lo..hi] of a quoted field with every doubled quote read as one
        Unquote(p, lo, hi) ==
            Flatten([k \in 1..(hi - lo + 1) |->
                       IF /\ text[lo + k - 1] = "\""
                          /\ (lo + k - 1 - QuoteRunStart(p, lo + k - 1)) % 2 = 1
                       THEN <<>> ELSE <<text[lo + k - 1]>>])
        \* the quotes that can close the field opened at p: the last quote
        \* of a run of an odd number of quotes
        ClosingQuotes(p) ==
            {q \in (p + 1)..Len(text) :
                /\ text[q] = "\""
                /\ text[q + 1] # "\""
                /\ (q - QuoteRunStart(p, q)) % 2 = 0}
        RECURSIVE ReadFields(_, _)
        \* the character at e ends the field
        FinishField(e, fields) ==
            IF text[e] = "," THEN ReadFields(e + 1, fields)
            ELSE IF text[e] = "\n" THEN [kind |-> "row", row |-> fields, next |-> e + 1]
            ELSE EatCrNl(e + 1, fields)
        \* an unquoted field from p to e - 1
        ReadPlain(p, e, fields) ==
            FinishField(e, Append(fields, SubSeq(text, p, e - 1)))
        \* a quoted field opened at p and closed at q: what follows the
        \* closing quote up to e - 1 is appended as it stands
        ReadQuoted(p, q, e, fields) ==
            FinishField(e, Append(fields, Unquote(p, p + 1, q - 1)
                                          \o SubSeq(text, q + 1, e - 1)))
        \* a quoted field opened at p with the closing quotes cl
        ReadQuotedField(p, cl, fields) ==
            IF cl = {}
            THEN \* the input ends inside the quoted field, which is saved
                 [kind |-> "row",
                  row |-> Append(fields, Unquote(p, p + 1, Len(text))),
                  next |-> Len(text) + 1]
            ELSE ReadQuoted(p, Min(cl), FieldEnd(Min(cl) + 1), fields)
        \* the reader in the START_FIELD state at position p: the states
        \* IN_FIELD, IN_QUOTED_FIELD and QUOTE_IN_QUOTED_FIELD of
        \* parse_process_char, taken a field at a time
        ReadFields(p, fields) ==
            IF text[p] # "\"" THEN ReadPlain(p, FieldEnd(p), fields)
            ELSE ReadQuotedField(p, ClosingQuotes(p), fields)
    IN  IF i > Len(text) THEN [kind |-> "stop", row |-> <<>>, next |-> i]
        ELSE IF text[i] \in {"\n", "\r"} THEN EatCrNl(i, <<>>)
        ELSE ReadFields(i, <<>>)

\* next(csv.DictReader(f), None): the first line gives the fieldnames, the
\* next non-empty record the row
DictReaderNext(text) ==
    LET RECURSIVE NextNonEmptyRow(_)
        \* rows equal to [] are skipped
        SkipEmptyRow(r) ==
            IF r.kind = "row" /\ r.row = <<>> THEN NextNonEmptyRow(r.next) ELSE r
        \* DictReader.__next__ from position i
        NextNonEmptyRow(i) == SkipEmptyRow(ReaderNext(text, i))
        \* the DictReader's row under the fieldnames h read from the first line
        RowUnder(h, r) == [kind |-> r.kind, fieldnames |-> h.row, row |-> r.row]
        DictReaderAfter(h) ==
            IF h.kind # "row" THEN [kind |-> h.kind, fieldnames |-> <<>>, row |-> <<>>]
            ELSE RowUnder(h, NextNonEmptyRow(h.next))
    IN  DictReaderAfter(ReaderNext(text, 1))

\* row.get(k) of the DictReader's dict: dict(zip(fieldnames, row)), then
\* restval None for the fieldnames the row is too short for; a later
\* duplicate of a fieldname overwrites an earlier one
RowGet(fieldnames, row, k) ==
    LET \* the value of the last of the positions at, where fieldnames holds k
        RowAt(at) ==
            IF at = {} THEN None ELSE IF Max(at) <= Len(row) THEN row[Max(at)] ELSE None
    IN  RowAt({i \in 1..Len(fieldnames) : fieldnames[i] = k})

\* a writer that quotes nothing
WriterFieldUnquoted(v) == v

\* csv.writer's quoting of one field (QUOTE_MINIMAL, lineterminator \r\n)
WriterField(v) ==
    IF \E i \in 1..Len(v) : v[i] \in {",", "\"", "\r", "\n"}
    THEN <<"\"">> \o Replace(v, <<"\"">>, <<"\"", "\"">>) \o <<"\"">>
    ELSE v

\* writer.writerow(row); output.getvalue(): a one-field row holding the empty
\* string is written as ""
WriteRow(row) ==
    (IF Len(row) = 1 /\ row[1] = <<>> THEN <<"\"", "\"">>
     ELSE Join([i \in 1..Len(row) |-> WriterField(row[i])], <<",">>))
    \o <<"\r", "\n">>

\* ------------------------------------------------------------------------
\* LLMExtractor: the reply parser
\* ------------------------------------------------------------------------

\* the fixed CSV header, in parsing order
CSV_FIELDS == <<"autor", "reu", "assunto_principal", "tipo_decisao",
                "resultado", "resumo_5_linhas", "data_decisao", "tribunal">>

FieldKeys == {CSV_FIELDS[i] : i \in 1..Len(CSV_FIELDS)}

\* the characters of a field name
FieldName(k) ==
    CASE k = "autor" -> <<"a","u","t","o","r">>
      [] k = "reu" -> <<"r","e","u">>
      [] k = "assunto_principal" -> <<"a","s","s","u","n","t","o","_","p","r","i","n","c","i","p","a","l">>
      [] k = "tipo_decisao" -> <<"t","i","p","o","_","d","e","c","i","s","a","o">>
      [] k = "resultado" -> <<"r","e","s","u","l","t","a","d","o">>
      [] k = "resumo_5_linhas" -> <<"r","e","s","u","m","o","_","5","_","l","i","n","h","a","s">>
      [] k = "data_decisao" -> <<"d","a","t","a","_","d","e","c","i","s","a","o">>
      [] k = "tribunal" -> <<"t","r","i","b","u","n","a","l">>

\* Optional[Dict]: the None a function returns in place of a dict
Absent == [k \in {"<None>"} |-> None]

\* the header line _parse_csv_output synthesizes: ",".join(CSV_FIELDS)
CanonicalHeader == Join([i \in 1..Len(CSV_FIELDS) |-> FieldName(CSV_FIELDS[i])], <<",">>)

\* the column list _build_csv_prompt prints: ', '.join(CSV_FIELDS)
PromptColumns == Join([i \in 1..Len(CSV_FIELDS) |-> FieldName(CSV_FIELDS[i])], <<",", " ">>)

\* a cell that is not trimmed
NormalizeCellUntrimmed(v) ==
    LET NoneIfEmpty(w) == IF w # <<>> THEN w ELSE None
    IN  IF v = None THEN None
        ELSE NoneIfEmpty(Replace(v, <<"\\", "n">>, <<"\n">>))

\* the value _parse_csv_output stores for a cell of the row
NormalizeCell(v) ==
    LET \* v if v != "" else None
        NoneIfEmpty(w) == IF w # <<>> THEN w ELSE None
    IN  IF v = None THEN None
        ELSE NoneIfEmpty(Replace(Strip(v), <<"\\", "n">>, <<"\n">>))

\* _parse_csv_output(raw): a dict over CSV_FIELDS, or Absent for None
ParseCsvOutput(raw) ==
    LET \* [ln for ln in raw.split("\n") if ln.strip() != ""]
        NonBlank(lines) == SelectSeq(lines, LAMBDA ln : Strip(ln) # <<>>)
        \* lines 198-209: the dict built from the DictReader's row
        NormalizeRow(rd) ==
            IF rd.kind # "row" THEN Absent
            ELSE [k \in FieldKeys |->
                    NormalizeCell(RowGet(rd.fieldnames, rd.row, FieldName(k)))]
        \* lines 179-187: the header and the data line
        HeaderLine(lines) == IF Len(lines) >= 2 THEN Strip(lines[1]) ELSE CanonicalHeader
        DataLine(lines) ==
            IF Len(lines) >= 2 THEN Strip(Join(Tail(lines), <<"\n">>))
            ELSE Strip(lines[1])
        ParseLines(lines) ==
            IF Len(lines) = 0 THEN Absent
            ELSE NormalizeRow(DictReaderNext(HeaderLine(lines) \o <<"\n">>
                                             \o DataLine(lines) \o <<"\n">>))
    IN  IF raw = <<>> THEN Absent
        ELSE ParseLines(NonBlank(Split(Strip(Replace(raw, <<"\r", "\n">>, <<"\n">>)),
                                       "\n")))

\* ln.count(",") >= 3
IsDense(ln) == Count(ln, ",") >= 3

\* _extract_csv_block(text): the two-line block, or None
ExtractCsvBlock(text) ==
    LET \* candidate_lines[i] + "\n" + candidate_lines[i + 1]
        Block(cand, i) == cand[i] \o <<"\n">> \o cand[i + 1]
        \* lines 221-235 on the candidate lines, hit the pairs that name the
        \* first three fields
        BlockOf(cand, hit) ==
            IF Len(cand) = 0 THEN None
            ELSE IF hit # {} THEN Block(cand, Min(hit))
            ELSE IF Len(cand) >= 2 THEN Block(cand, 1)
            ELSE None
        HeaderPairs(cand) ==
            {i \in 1..(Len(cand) - 1) :
                \A f \in 1..3 : \/ Contains(Block(cand, i), FieldName(CSV_FIELDS[f]))
                                \/ Contains(cand[i], FieldName(CSV_FIELDS[f]))}
        CandidateBlock(cand) == BlockOf(cand, HeaderPairs(cand))
    IN  \* [ln for ln in text.splitlines() if ln.count(",") >= 3]
        CandidateBlock(SelectSeq(SplitLines(text), IsDense))

\* dict_to_csv_line(d): the values as one CSV line
DictToCsvLine(d) ==
    LET \* d.get(f)
        Get(f) == IF f \in DOMAIN d THEN d[f] ELSE None
    IN  Strip(WriteRow([i \in 1..Len(CSV_FIELDS) |->
                          IF Get(CSV_FIELDS[i]) = None THEN <<>>
                          ELSE Replace(Get(CSV_FIELDS[i]), <<"\n">>, <<"\\", "n">>)]))

\* ------------------------------------------------------------------------
\* LLMExtractor._heuristic_extract: the label regular expressions.
\* Characters outside ASCII are the tokens "<e-acute>", "<c-cedilla>",
\* "<a-tilde>", "<o-acute>" and "<en-dash>".
\* ------------------------------------------------------------------------

\* re.sub(r"\s+", " ", text)
SquashWS(s) ==
    Flatten([i \in 1..Len(s) |->
               IF ~IsSpace(s[i]) THEN <<s[i]>>
               ELSE IF i > 1 /\ IsSpace(s[i - 1]) THEN <<>>
               ELSE <<" ">>])

\* the first position >= i of t that holds no space, Len(t) + 1 if none
SkipSpaces(t, i) == Min({j \in i..(Len(t) + 1) : j = Len(t) + 1 \/ ~IsSpace(t[j])})

\* the tail every find_after pattern ends with, matched at position q:
\*   \s*[:\-<en-dash>]\s*(.+?)(?=\s+[A-Z][a-z]+:|\Z)
TailAt(t, q) ==
    LET \* the lookahead (?=\s+[A-Z][a-z]+:|\Z) at position p, under
        \* re.IGNORECASE
        LabelAhead(p) ==
            \/ p = Len(t) + 1
            \/ \E a \in (p + 1)..Len(t) : \E b \in (a + 1)..(Len(t) - 1) :
                  /\ \A i \in p..(a - 1) : IsSpace(t[i])
                  /\ \A i \in a..b : IsAlpha(t[i])
                  /\ t[b + 1] = ":"
        \* the lazy group (.+?) from c0: it ends at the first position the
        \* lookahead accepts
        Capture(s1, c0) ==
            IF c0 <= s1 THEN [ok |-> FALSE, cap |-> <<>>]
            ELSE [ok |-> TRUE,
                  cap |-> SubSeq(t, c0, Min({e \in c0..Len(t) : LabelAhead(e + 1)}))]
        \* the second \s* is greedy and gives a space back only when nothing
        \* is left to capture
        CaptureAfter(s1, s2) == Capture(s1, IF s2 <= Len(t) THEN s2 ELSE Len(t))
        \* the separator [:\-<en-dash>] at s1
        TailFrom(s1) ==
            IF s1 > Len(t) THEN [ok |-> FALSE, cap |-> <<>>]
            ELSE IF t[s1] \notin {":", "-", "<en-dash>"} THEN [ok |-> FALSE, cap |-> <<>>]
            ELSE CaptureAfter(s1, SkipSpaces(t, s1 + 1))
    IN  TailFrom(SkipSpaces(t, q))

\* find_after for one pattern that is a top-level alternation
\* k1|k2|...|kn followed by the tail: the tail belongs to the last alternative
\* only, so a match of an earlier one leaves group 1 unset and
\* m.group(1).strip() raises AttributeError.  re.search takes the leftmost
\* position, and there the first alternative that matches.  lt is the text in
\* lower case, for re.IGNORECASE.
SearchAlts(t, lt, alts) ==
    LET \* whether alternative a matches at position p
        AltAt(p, a) ==
            /\ MatchAt(lt, p, a.kw)
            /\ a.tail => TailAt(t, p + Len(a.kw)).ok
        \* what the match of alternative a at position p gives find_after
        AltValue(p, a) ==
            IF a.tail THEN [kind |-> "value", v |-> Strip(TailAt(t, p + Len(a.kw)).cap)]
            ELSE [kind |-> "raise", v |-> <<>>]
        \* at the leftmost position the first alternative that matches is taken
        AltsAt(p) ==
            AltValue(p, alts[Min({i \in 1..Len(alts) : AltAt(p, alts[i])})])
        AltsAmong(ps) ==
            IF ps = {} THEN [kind |-> "none", v |-> <<>>] ELSE AltsAt(Min(ps))
    IN  AltsAmong({p \in 1..Len(t) : \E i \in 1..Len(alts) : AltAt(p, alts[i])})

\* find_after for a pattern ^(k1|...|kn) followed by the tail: group 1 is the
\* label itself, matched at the start of the text only
SearchLabelGroup(t, lt, kws) ==
    LET \* the label of the labels ok that is first in the pattern
        LabelAmong(ok) ==
            IF ok = {} THEN [kind |-> "none", v |-> <<>>]
            ELSE [kind |-> "value", v |-> Strip(SubSeq(t, 1, Len(kws[Min(ok)])))]
    IN  LabelAmong({i \in 1..Len(kws) :
                       MatchAt(lt, 1, kws[i]) /\ TailAt(t, 1 + Len(kws[i])).ok})

\* find_after for a pattern prefix(k1|...|kn) followed by the tail, anywhere
\* in the text: group 1 is the alternative matched
SearchGroupAfter(t, lt, prefix, kws) ==
    LET \* whether prefix, kw and the tail match at position p
        GroupAt(p, kw) ==
            MatchAt(lt, p, prefix \o kw) /\ TailAt(t, p + Len(prefix) + Len(kw)).ok
        GroupValue(p, kw) ==
            [kind |-> "value",
             v |-> Strip(SubSeq(t, p + Len(prefix), p + Len(prefix) + Len(kw) - 1))]
        GroupAmong(ps) ==
            IF ps = {} THEN [kind |-> "none", v |-> <<>>]
            ELSE GroupValue(Min(ps),
                            kws[Min({i \in 1..Len(kws) : GroupAt(Min(ps), kws[i])})])
    IN  GroupAmong({p \in 1..Len(t) : \E i \in 1..Len(kws) : GroupAt(p, kws[i])})

\* find_after for versus\s+(.+?)\s followed by the tail: group 1 is the
\* shortest text after "versus" and its spaces that a space and the tail follow
SearchVersus(t, lt) ==
    LET Versus == <<"v","e","r","s","u","s">>
        \* the ends of group 1 when it starts at g0: a space and the tail
        \* follow
        VersusEnds(g0) ==
            {e \in g0..(Len(t) - 1) : IsSpace(t[e + 1]) /\ TailAt(t, e + 2).ok}
        \* whether versus\s+(.+?)\s and the tail match at position p
        VersusAt(p) ==
            /\ MatchAt(lt, p, Versus)
            /\ SkipSpaces(t, p + Len(Versus)) > p + Len(Versus)
            /\ VersusEnds(SkipSpaces(t, p + Len(Versus))) # {}
        VersusValue(g0) ==
            [kind |-> "value", v |-> Strip(SubSeq(t, g0, Min(VersusEnds(g0))))]
        VersusAmong(ps) ==
            IF ps = {} THEN [kind |-> "none", v |-> <<>>]
            ELSE VersusValue(SkipSpaces(t, Min(ps) + Len(Versus)))
    IN  VersusAmong({p \in 1..Len(t) : VersusAt(p)})

\* find_after(key_patterns) over the results of its patterns in order: the
\* first pattern that matches decides
FirstMatch(results) ==
    LET FirstAmong(hit) ==
            IF hit = {} THEN [kind |-> "none", v |-> <<>>] ELSE results[Min(hit)]
    IN  FirstAmong({i \in 1..Len(results) : results[i].kind # "none"})

\* find_after([r"^(appellant|petitioner|plaintiff|autor|peticioner|petitioner)",
\*             r"(?<=versus\s).*?(?=\s+v\b)"])
FindAutor(t, lt) ==
    LET \* the second pattern followed by the tail never matches: where the
        \* lookahead holds the next character is a space, and after the
        \* spaces \s* takes comes a "v", so the separator the tail needs is
        \* never there
        AutorSecondPattern == [kind |-> "none", v |-> <<>>]
    IN  FirstMatch(<<SearchLabelGroup(t, lt,
                        <<<<"a","p","p","e","l","l","a","n","t">>,
                          <<"p","e","t","i","t","i","o","n","e","r">>,
                          <<"p","l","a","i","n","t","i","f","f">>,
                          <<"a","u","t","o","r">>,
                          <<"p","e","t","i","c","i","o","n","e","r">>,
                          <<"p","e","t","i","t","i","o","n","e","r">>>>),
                     AutorSecondPattern>>)

\* find_after([r"defendant|respondent|respondent:|r<e-acute>u|respondente",
\*             r"versus\s+(.+?)\s"])
FindReu(t, lt) ==
    FirstMatch(<<SearchAlts(t, lt,
                    <<[kw |-> <<"d","e","f","e","n","d","a","n","t">>, tail |-> FALSE],
                      [kw |-> <<"r","e","s","p","o","n","d","e","n","t">>, tail |-> FALSE],
                      [kw |-> <<"r","e","s","p","o","n","d","e","n","t",":">>, tail |-> FALSE],
                      [kw |-> <<"r","<e-acute>","u">>, tail |-> FALSE],
                      [kw |-> <<"r","e","s","p","o","n","d","e","n","t","e">>, tail |-> TRUE]>>),
                 SearchVersus(t, lt)>>)

\* find_after([r"subject|assunto|matter|case about|challenge to|challenge of"])
FindAssunto(t, lt) ==
    FirstMatch(<<SearchAlts(t, lt,
                    <<[kw |-> <<"s","u","b","j","e","c","t">>, tail |-> FALSE],
                      [kw |-> <<"a","s","s","u","n","t","o">>, tail |-> FALSE],
                      [kw |-> <<"m","a","t","t","e","r">>, tail |-> FALSE],
                      [kw |-> <<"c","a","s","e"," ","a","b","o","u","t">>, tail |-> FALSE],
                      [kw |-> <<"c","h","a","l","l","e","n","g","e"," ","t","o">>, tail |-> FALSE],
                      [kw |-> <<"c","h","a","l","l","e","n","g","e"," ","o","f">>, tail |-> TRUE]>>)>>)

\* find_after([r"judgment|order|decision|senten<c-cedilla>a|ac<o-acute>rd<a-tilde>o|order:"])
FindTipo(t, lt) ==
    FirstMatch(<<SearchAlts(t, lt,
                    <<[kw |-> <<"j","u","d","g","m","e","n","t">>, tail |-> FALSE],
                      [kw |-> <<"o","r","d","e","r">>, tail |-> FALSE],
                      [kw |-> <<"d","e","c","i","s","i","o","n">>, tail |-> FALSE],
                      [kw |-> <<"s","e","n","t","e","n","<c-cedilla>","a">>, tail |-> FALSE],
                      [kw |-> <<"a","c","<o-acute>","r","d","<a-tilde>","o">>, tail |-> FALSE],
                      [kw |-> <<"o","r","d","e","r",":">>, tail |-> TRUE]>>)>>)

\* find_after([r"result|disposition|held that|decided that|order|disposed",
\*             r"result:"])
FindResultado(t, lt) ==
    FirstMatch(<<SearchAlts(t, lt,
                    <<[kw |-> <<"r","e","s","u","l","t">>, tail |-> FALSE],
                      [kw |-> <<"d","i","s","p","o","s","i","t","i","o","n">>, tail |-> FALSE],
                      [kw |-> <<"h","e","l","d"," ","t","h","a","t">>, tail |-> FALSE],
                      [kw |-> <<"d","e","c","i","d","e","d"," ","t","h","a","t">>, tail |-> FALSE],
                      [kw |-> <<"o","r","d","e","r">>, tail |-> FALSE],
                      [kw |-> <<"d","i","s","p","o","s","e","d">>, tail |-> TRUE]>>),
                 SearchAlts(t, lt,
                    <<[kw |-> <<"r","e","s","u","l","t",":">>, tail |-> TRUE]>>)>>)

\* find_after([r"court|tribunal|supreme court|tribunal de",
\*             r"in the (supreme court|high court)"])
FindTribunal(t, lt) ==
    FirstMatch(<<SearchAlts(t, lt,
                    <<[kw |-> <<"c","o","u","r","t">>, tail |-> FALSE],
                      [kw |-> <<"t","r","i","b","u","n","a","l">>, tail |-> FALSE],
                      [kw |-> <<"s","u","p","r","e","m","e"," ","c","o","u","r","t">>, tail |-> FALSE],
                      [kw |-> <<"t","r","i","b","u","n","a","l"," ","d","e">>, tail |-> TRUE]>>),
                 SearchGroupAfter(t, lt, <<"i","n"," ","t","h","e"," ">>,
                    <<<<"s","u","p","r","e","m","e"," ","c","o","u","r","t">>,
                      <<"h","i","g","h"," ","c","o","u","r","t">>>>)>>)

\* re.search(r"(\d{1,2}[\/\-]\d{1,2}[\/\-]\d{2,4})", text): the leftmost
\* match
FindDate(text) ==
    LET \* whether text[i..j] is a run of digits
        Digits(i, j) == j <= Len(text) /\ \A k \in i..j : IsDigit(text[k])
        \* whether \d{a}[\/\-]\d{b}[\/\-]\d{c} matches at position p
        DateShape(p, a, b, c) ==
            /\ Digits(p, p + a - 1)
            /\ p + a <= Len(text) /\ text[p + a] \in {"/", "-"}
            /\ Digits(p + a + 1, p + a + b)
            /\ p + a + b + 1 <= Len(text) /\ text[p + a + b + 1] \in {"/", "-"}
            /\ Digits(p + a + b + 2, p + a + b + 1 + c)
        \* the repetition counts with which the date pattern matches at p
        DateShapesAt(p) ==
            {x \in {<<a, b, c>> : a \in 1..2, b \in 1..2, c \in 2..4} :
                DateShape(p, x[1], x[2], x[3])}
        \* every repetition is as long as the rest of the pattern allows
        Greediest(shapes) ==
            CHOOSE x \in shapes : \A y \in shapes :
               \/ x[1] > y[1]
               \/ x[1] = y[1] /\ x[2] > y[2]
               \/ x[1] = y[1] /\ x[2] = y[2] /\ x[3] >= y[3]
        DateOf(p, best) == SubSeq(text, p, p + best[1] + best[2] + best[3] + 1)
        DateAmong(ps) ==
            IF ps = {} THEN None ELSE DateOf(Min(ps), Greediest(DateShapesAt(Min(ps))))
    IN  DateAmong({p \in 1..Len(text) : DateShapesAt(p) # {}})

\* Optional[Dict]: the exception a function raises in place of returning
Raised == [k \in {"<raise>"} |-> None]

\* _heuristic_extract(text): a dict over CSV_FIELDS, Absent for None, or
\* Raised when a find_after raises AttributeError
HeuristicExtract(text) ==
    LET \* the value find_after hands back: None without a match
        FoundValue(r) == IF r.kind = "value" THEN r.v ELSE None
        \* lines 279-283: None when no value was found
        NoneIfNothing(out) ==
            IF \A k \in FieldKeys : out[k] = None \/ out[k] = <<>> THEN Absent ELSE out
        \* lines 268-277: the dict of the values found, once no find_after
        \* raised
        HeuristicOut(autor, reu, assunto, tipo, resultado, data, tribunal) ==
            IF \E r \in {autor, reu, assunto, tipo, resultado, tribunal} : r.kind = "raise"
            THEN Raised
            ELSE NoneIfNothing([k \in FieldKeys |->
                                  CASE k = "autor" -> FoundValue(autor)
                                    [] k = "reu" -> FoundValue(reu)
                                    [] k = "assunto_principal" -> FoundValue(assunto)
                                    [] k = "tipo_decisao" -> FoundValue(tipo)
                                    [] k = "resultado" -> FoundValue(resultado)
                                    [] k = "resumo_5_linhas" -> None
                                    [] k = "data_decisao" -> data
                                    [] k = "tribunal" -> FoundValue(tribunal)])
        \* the searches over t, the text with its whitespace squashed, and
        \* lt, t in lower case; the date is searched in the text as given
        HeuristicOver(t, lt) ==
            HeuristicOut(FindAutor(t, lt), FindReu(t, lt), FindAssunto(t, lt),
                         FindTipo(t, lt), FindResultado(t, lt), FindDate(text),
                         FindTribunal(t, lt))
        HeuristicOn(t) == HeuristicOver(t, Lower(t))
    IN  HeuristicOn(SquashWS(text))

\* ------------------------------------------------------------------------
\* EntityValidator (validator.py).  A field validator returns the triple
\* (is_valid, normalized_value, error) as a record [ok, value, error].
\* ------------------------------------------------------------------------

MIN_SUMMARY_LINES == 1

MAX_SUMMARY_LINES == 5

\* settings.VALID_RESULTS
VALID_RESULTS ==
    <<<<"g","r","a","n","t","e","d">>,
      <<"d","e","n","i","e","d">>,
      <<"d","i","s","m","i","s","s","e","d">>,
      <<"a","l","l","o","w","e","d">>,
      <<"r","e","j","e","c","t","e","d">>,
      <<"d","e","f","e","r","i","d","o">>,
      <<"i","n","d","e","f","e","r","i","d","o">>,
      <<"p","r","o","c","e","d","e","n","t","e">>,
      <<"i","m","p","r","o","c","e","d","e","n","t","e">>,
      <<"a","r","q","u","i","v","a","d","o">>>>

\* settings.ENTITIES
ENTITIES == CSV_FIELDS

Accept(v) == [ok |-> TRUE, value |-> v, error |-> <<>>]

Reject(msg) == [ok |-> FALSE, value |-> None, error |-> msg]

\* a placeholder test that knows the placeholders in lower case only
IsPlaceholderLowerOnly(value) ==
    \/ value = None
    \/ value \in {<<>>, <<"n","u","l","l">>, <<"n","o","n","e">>, <<"n","/","a">>}

\* not value or value.lower() in ['null', 'none', 'n/a']
IsPlaceholder(value) ==
    \/ value = None
    \/ value = <<>>
    \/ Lower(value) \in {<<"n","u","l","l">>, <<"n","o","n","e">>, <<"n","/","a">>}

\* str.isdigit()
IsDigitStr(s) == s # <<>> /\ \A i \in 1..Len(s) : IsDigit(s[i])

\* _validate_party_name(value)
ValidatePartyName(value) ==
    LET \* lines 72-79 on normalized = ' '.join(value.split())
        PartyNameOf(normalized) ==
            IF Len(normalized) < 2
            THEN Reject(<<"N","o","m","e"," ","m","u","i","t","o"," ","c","u","r","t","o">>)
            ELSE IF IsDigitStr(Replace(normalized, <<" ">>, <<>>))
            THEN Reject(<<"N","o","m","e"," ","n","<a-tilde>","o"," ","p","o","d","e"," ","s","e","r"," ","a","p","e","n","a","s"," ","n","<u-acute>","m","e","r","o","s">>)
            ELSE Accept(normalized)
    IN  IF IsPlaceholder(value) THEN Accept(None) ELSE PartyNameOf(CollapseWS(value))

\* _validate_subject(value)
ValidateSubject(value) ==
    LET \* lines 88-91 on normalized = ' '.join(value.split())
        SubjectOf(normalized) ==
            IF Len(normalized) < 3
            THEN Reject(<<"A","s","s","u","n","t","o"," ","m","u","i","t","o"," ","c","u","r","t","o">>)
            ELSE Accept(normalized)
    IN  IF IsPlaceholder(value) THEN Accept(None) ELSE SubjectOf(CollapseWS(value))

\* a decision type validator that takes only the types it knows
ValidateDecisionTypeKnownOnly(value) ==
    IF IsPlaceholder(value) THEN Accept(None)
    ELSE IF Lower(value) \in {<<"a","c","<o-acute>","r","d","<a-tilde>","o">>,
                              <<"s","e","n","t","e","n","<c-cedilla>","a">>}
    THEN Accept(value)
    ELSE Reject(<<"T","i","p","o">>)

\* _validate_decision_type(value): an unusual decision type is logged and
\* accepted as it stands
ValidateDecisionType(value) ==
    IF IsPlaceholder(value) THEN Accept(None) ELSE Accept(value)

\* an outcome validator that takes only a value equal to a term of the
\* vocabulary
ValidateResultExact(value) ==
    IF IsPlaceholder(value) THEN Accept(None)
    ELSE IF \E i \in 1..Len(VALID_RESULTS) : Lower(value) = VALID_RESULTS[i]
    THEN Accept(value)
    ELSE Reject(<<"R","e","s","u","l","t","a","d","o"," ","i","n","v","<a-acute>","l","i","d","o",".",
                  " ","E","s","p","e","r","a","d","o"," ","u","m"," ","d","e",":"," ">>
                \o Join(VALID_RESULTS, <<",", " ">>))

\* an outcome validator that hands a rejected value back
ValidateResultKeepsValue(value) ==
    IF IsPlaceholder(value) THEN Accept(None)
    ELSE IF \E i \in 1..Len(VALID_RESULTS) : Contains(Lower(value), Lower(VALID_RESULTS[i]))
    THEN Accept(value)
    ELSE [ok |-> FALSE, value |-> value, error |-> <<"R","e","s","u","l","t","a","d","o">>]

\* _validate_result(value)
ValidateResult(value) ==
    LET \* f"Resultado inv<a-acute>lido. Esperado um de: {', '.join(settings.VALID_RESULTS)}"
        InvalidResultMessage ==
            <<"R","e","s","u","l","t","a","d","o"," ","i","n","v","<a-acute>","l","i","d","o","."," ","E","s","p","e","r","a","d","o"," ","u","m"," ","d","e",":"," ">>
            \o Join(VALID_RESULTS, <<",", " ">>)
        \* any(valid_result in normalized for valid_result in self.valid_results)
        ContainsValid(normalized) ==
            \E i \in 1..Len(VALID_RESULTS) : Contains(normalized, Lower(VALID_RESULTS[i]))
    IN  IF IsPlaceholder(value) THEN Accept(None)
        ELSE IF ~ContainsValid(Lower(value)) THEN Reject(InvalidResultMessage)
        ELSE Accept(value)

\* str(n) of a natural number
Decimal(n) ==
    LET DigitChars == <<"0","1","2","3","4","5","6","7","8","9">>
        RECURSIVE Digits(_)
        Digits(k) ==
            IF k < 10 THEN <<DigitChars[k + 1]>>
            ELSE Digits(k \div 10) \o <<DigitChars[(k % 10) + 1]>>
    IN  Digits(n)

\* a summary validator that lets a placeholder through like the other seven
ValidateSummaryOptional(value) ==
    IF IsPlaceholder(value) THEN Accept(None) ELSE Accept(value)

\* a summary validator that never truncates
ValidateSummaryKeepsAll(value) ==
    IF IsPlaceholder(value) \/ \A i \in 1..Len(value) : IsSpace(value[i])
    THEN Reject(<<"R","e","s","u","m","o">>)
    ELSE Accept(value)

\* _validate_summary(value)
ValidateSummary(value) ==
    LET \* f"Resumo muito curto (m<i-acute>nimo {settings.MIN_SUMMARY_LINES} linha)"
        ShortSummaryMessage ==
            <<"R","e","s","u","m","o"," ","m","u","i","t","o"," ","c","u","r","t","o"," ","(","m","<i-acute>","n","i","m","o"," ">>
            \o Decimal(MIN_SUMMARY_LINES) \o <<" ","l","i","n","h","a",")">>
        \* [line.strip() for line in value.split('\n') if line.strip()]
        Strips(pieces) == [i \in 1..Len(pieces) |-> Strip(pieces[i])]
        StrippedLines(pieces) == SelectSeq(Strips(pieces), LAMBDA ln : ln # <<>>)
        \* lines 136-147 on the stripped non-empty lines
        SummaryOf(lines) ==
            IF Len(lines) < MIN_SUMMARY_LINES THEN Reject(ShortSummaryMessage)
            ELSE IF Len(lines) > MAX_SUMMARY_LINES
            THEN Accept(Join(SubSeq(lines, 1, MAX_SUMMARY_LINES), <<"\n">>))
            ELSE Accept(value)
    IN  IF IsPlaceholder(value)
        THEN Reject(<<"R","e","s","u","m","o"," ","<e-acute>"," ","o","b","r","i","g","a","t","<o-acute>","r","i","o">>)
        ELSE SummaryOf(StrippedLines(Split(value, "\n")))

\* a court validator that takes only None for absent
ValidateCourtNoneOnly(value) ==
    IF value = None THEN Accept(None)
    ELSE IF Len(CollapseWS(value)) < 3 THEN Reject(<<"s","h","o","r","t">>)
    ELSE Accept(CollapseWS(value))

\* _validate_court(value)
ValidateCourt(value) ==
    LET \* lines 192-195 on normalized = ' '.join(value.split())
        CourtOf(normalized) ==
            IF Len(normalized) < 3
            THEN Reject(<<"N","o","m","e"," ","d","o"," ","t","r","i","b","u","n","a","l"," ","m","u","i","t","o"," ","c","u","r","t","o">>)
            ELSE Accept(normalized)
    IN  IF IsPlaceholder(value) THEN Accept(None) ELSE CourtOf(CollapseWS(value))

\* str.zfill(2)
ZFill2(p) == IF Len(p) < 2 THEN <<"0">> \o p ELSE p

\* date_obj.strftime('%d/%m/%Y'): the year is printed without padding
StrFTime(d, m, y) ==
    ZFill2(Decimal(d)) \o <<"/">> \o ZFill2(Decimal(m)) \o <<"/">> \o Decimal(y)

\* _validate_date(value): a date is never rejected
ValidateDate(value) ==
    LET \* the value of a run of decimal digits
        RECURSIVE Number(_)
        Number(ds) ==
            IF ds = <<>> THEN 0
            ELSE 10 * Number(SubSeq(ds, 1, Len(ds) - 1))
                 + (CHOOSE d \in 0..9 : Decimal(d) = <<ds[Len(ds)]>>)
        \* strptime's %d, (3[0-1]|[1-2]\d|0[1-9]|[1-9]| [1-9]): the day, 0
        \* when the text is no day
        DayOf(p) ==
            IF Len(p) = 2 /\ p[1] = " " /\ IsDigit(p[2]) /\ p[2] # "0" THEN Number(Tail(p))
            ELSE IF IsDigitStr(p) /\ Len(p) <= 2 /\ Number(p) \in 1..31 THEN Number(p)
            ELSE 0
        \* strptime's %m, (1[0-2]|0[1-9]|[1-9]): the month, 0 when the text
        \* is no month
        MonthOf(p) ==
            IF IsDigitStr(p) /\ Len(p) <= 2 /\ Number(p) \in 1..12 THEN Number(p) ELSE 0
        \* strptime's %Y, (\d\d\d\d): the year, -1 when the text is no year
        YearOf(p) == IF IsDigitStr(p) /\ Len(p) = 4 THEN Number(p) ELSE -1
        \* calendar.month_name of the C locale, in lower case
        MonthNames ==
            <<<<"j","a","n","u","a","r","y">>,
              <<"f","e","b","r","u","a","r","y">>,
              <<"m","a","r","c","h">>,
              <<"a","p","r","i","l">>,
              <<"m","a","y">>,
              <<"j","u","n","e">>,
              <<"j","u","l","y">>,
              <<"a","u","g","u","s","t">>,
              <<"s","e","p","t","e","m","b","e","r">>,
              <<"o","c","t","o","b","e","r">>,
              <<"n","o","v","e","m","b","e","r">>,
              <<"d","e","c","e","m","b","e","r">>>>
        \* strptime's %B, case-insensitive: the month, 0 when the text is no
        \* month name
        MonthNamed(p) ==
            IF \E m \in 1..12 : MonthNames[m] = Lower(p)
            THEN CHOOSE m \in 1..12 : MonthNames[m] = Lower(p)
            ELSE 0
        IsLeap(y) == y % 4 = 0 /\ (y % 100 # 0 \/ y % 400 = 0)
        DaysInMonth(y, m) ==
            IF m = 2 THEN (IF IsLeap(y) THEN 29 ELSE 28)
            ELSE IF m \in {4, 6, 9, 11} THEN 30
            ELSE 31
        \* datetime(y, m, d) of the fields strptime read, rendered; None for
        \* the ValueError of a field that did not match or a date that does
        \* not exist
        DateOrNone(d, m, y) ==
            IF d >= 1 /\ m >= 1 /\ y >= 1 /\ d <= DaysInMonth(y, m) THEN StrFTime(d, m, y)
            ELSE None
        \* strptime under a layout of three numbers around one separator
        ThreeParts(parts, di, mi, yi) ==
            IF Len(parts) # 3 THEN None
            ELSE DateOrNone(DayOf(parts[di]), MonthOf(parts[mi]), YearOf(parts[yi]))
        \* the day text before the words of '%d %B %Y': the pattern's " [1-9]"
        \* takes one leading space
        LeadingDay(word) ==
            IF ~IsSpace(value[1]) THEN word
            ELSE IF value[1] = " " /\ ~IsSpace(value[2]) THEN <<" ">> \o word
            ELSE <<>>
        \* strptime(value, '%d %B %Y') on the words of value
        DayMonthYear(words) ==
            IF Len(words) # 3 \/ IsSpace(value[Len(value)]) THEN None
            ELSE DateOrNone(DayOf(LeadingDay(words[1])), MonthNamed(words[2]),
                            YearOf(words[3]))
        \* the text before the comma that ends the day word of '%B %d, %Y'
        BeforeComma(word) ==
            IF word[Len(word)] = "," THEN SubSeq(word, 1, Len(word) - 1) ELSE <<>>
        \* strptime(value, '%B %d, %Y') on the words of value
        MonthDayYear(words) ==
            IF Len(words) # 3 \/ IsSpace(value[1]) \/ IsSpace(value[Len(value)]) THEN None
            ELSE DateOrNone(DayOf(BeforeComma(words[2])), MonthNamed(words[1]),
                            YearOf(words[3]))
        \* lines 155-171: what the layouts give, in the order they are tried
        Layouts ==
            <<ThreeParts(Split(value, "/"), 1, 2, 3),
              ThreeParts(Split(value, "-"), 1, 2, 3),
              ThreeParts(Split(value, "-"), 3, 2, 1),
              ThreeParts(Split(value, "."), 1, 2, 3),
              DayMonthYear(SplitWS(value)),
              MonthDayYear(SplitWS(value))>>
        \* whether value[i..j] is a run of digits
        DigitRun(i, j) == j <= Len(value) /\ \A k \in i..j : IsDigit(value[k])
        \* whether (\d{a})[\/\-\.](\d{b})[\/\-\.](\d{4}) matches at position p
        TripletAt(p, a, b) ==
            /\ DigitRun(p, p + a - 1)
            /\ p + a <= Len(value) /\ value[p + a] \in {"/", "-", "."}
            /\ DigitRun(p + a + 1, p + a + b)
            /\ p + a + b + 1 <= Len(value) /\ value[p + a + b + 1] \in {"/", "-", "."}
            /\ DigitRun(p + a + b + 2, p + a + b + 5)
        \* the lengths of day and month with which the triplet matches at p
        TripletsAt(p) ==
            {x \in {<<a, b>> : a \in 1..2, b \in 1..2} : TripletAt(p, x[1], x[2])}
        \* greedy repetitions: the longer day first, then the longer month
        LongestTriplet(shapes) ==
            CHOOSE x \in shapes : \A y \in shapes :
               x[1] > y[1] \/ (x[1] = y[1] /\ x[2] >= y[2])
        \* f"{day.zfill(2)}/{month.zfill(2)}/{year}"
        TripletValue(p, x) ==
            ZFill2(SubSeq(value, p, p + x[1] - 1)) \o <<"/">>
            \o ZFill2(SubSeq(value, p + x[1] + 1, p + x[1] + x[2])) \o <<"/">>
            \o SubSeq(value, p + x[1] + x[2] + 2, p + x[1] + x[2] + 5)
        \* lines 174-183: the leftmost numeric triplet, else the value as it
        \* stands
        TripletAmong(ps) ==
            IF ps = {} THEN value
            ELSE TripletValue(Min(ps), LongestTriplet(TripletsAt(Min(ps))))
        \* lines 164-183 on what the layouts gave
        DateFrom(layouts, hit) ==
            IF hit # {} THEN layouts[Min(hit)]
            ELSE TripletAmong({p \in 1..Len(value) : TripletsAt(p) # {}})
        DateOfLayouts(layouts) ==
            DateFrom(layouts, {i \in 1..Len(layouts) : layouts[i] # None})
    IN  IF IsPlaceholder(value) THEN Accept(None)
        ELSE Accept(DateOfLayouts(Layouts))

\* the validator validate applies to a field
Validator(field, value) ==
    CASE field \in {"autor", "reu"} -> ValidatePartyName(value)
      [] field = "assunto_principal" -> ValidateSubject(value)
      [] field = "tipo_decisao" -> ValidateDecisionType(value)
      [] field = "resultado" -> ValidateResult(value)
      [] field = "resumo_5_linhas" -> ValidateSummary(value)
      [] field = "data_decisao" -> ValidateDate(value)
      [] field = "tribunal" -> ValidateCourt(value)

\* a result that keeps the validated fields only
ValidatedFieldsOnly(entities) ==
    [k \in DOMAIN entities \cap FieldKeys |-> Validator(k, entities[k]).value]

\* lines 31 and 52: the copy of entities with every validated field replaced
\* by its normalized value
Validated(entities) ==
    [k \in DOMAIN entities |->
       IF k \in FieldKeys THEN Validator(k, entities[k]).value ELSE entities[k]]

\* EntityValidator.validate(entities)
Validate(entities) ==
    LET \* the field is in the dict and its validator rejects its value
        Rejected(field) ==
            field \in DOMAIN entities /\ ~Validator(field, entities[field]).ok
        \* lines 45-50: one f"{field}: {error}" per rejected field, in the
        \* order of the validators
        ErrorsOf(rejected) ==
            [i \in 1..Len(rejected) |->
               FieldName(rejected[i]) \o <<":", " ">>
               \o Validator(rejected[i], entities[rejected[i]]).error]
        ValidateWith(errors) ==
            [is_valid |-> Len(errors) = 0,
             validated |-> Validated(entities),
             errors |-> errors]
    IN  ValidateWith(ErrorsOf(SelectSeq(CSV_FIELDS, Rejected)))

\* a test that knows the placeholders in lower case only
IsFilledCaseSensitive(entities, key) ==
    /\ key \in DOMAIN entities
    /\ entities[key] # None
    /\ entities[key] \notin {<<"n","u","l","l">>, <<"n","o","n","e">>, <<"n","/","a">>, <<>>}

\* line 210: the key is filled
IsFilled(entities, key) ==
    /\ key \in DOMAIN entities
    /\ entities[key] # None
    /\ entities[key] # <<>>
    /\ Lower(entities[key])
          \notin {<<"n","u","l","l">>, <<"n","o","n","e">>, <<"n","/","a">>, <<>>}

\* a completeness that counts the fields the dict has a key for
CalculateCompletenessOfKeys(entities) ==
    IF Len(ENTITIES) > 0
    THEN <<Cardinality({i \in 1..Len(ENTITIES) : ENTITIES[i] \in DOMAIN entities}),
           Len(ENTITIES)>>
    ELSE <<0, 1>>

\* EntityValidator.calculate_completeness(entities): the float
\* filled_fields / total_fields as the pair of the two
CalculateCompleteness(entities) ==
    IF Len(ENTITIES) > 0
    THEN <<Cardinality({i \in 1..Len(ENTITIES) : IsFilled(entities, ENTITIES[i])}),
           Len(ENTITIES)>>
    ELSE <<0, 1>>

\* ------------------------------------------------------------------------
\* TextCleaner (src/src/text_cleaner.py)
\* ------------------------------------------------------------------------

\* s[:n]
Prefix(s, n) == SubSeq(s, 1, Min({n, Len(s)}))

\* re.sub(pattern, repl, s) for a pattern that matches no empty text:
\* MatchLen(s, i) is the length of the pattern's match at position i, 0
\* without one; the matches are taken from left to right
ReSub(s, MatchLen(_, _), repl) ==
    LET RECURSIVE From(_)
        From(i) ==
            IF i > Len(s) THEN <<>>
            ELSE IF MatchLen(s, i) > 0 THEN repl \o From(i + MatchLen(s, i))
            ELSE <<s[i]>> \o From(i + 1)
    IN  From(1)

\* the length of the run of characters c with In(c) that starts at i
RunLength(s, i, In(_)) ==
    LET Stops == {j \in i..Len(s) : ~In(s[j])}
    IN  IF Stops = {} THEN Len(s) - i + 1 ELSE Min(Stops) - i

\* _remove_headers(text): header_patterns, each with re.IGNORECASE
RemoveHeaders(text) ==
    LET Digits(s, i) == RunLength(s, i, IsDigit)
        NonSpaces(s, i) == RunLength(s, i, LAMBDA c : ~IsSpace(c))
        Spaces(s, i) == RunLength(s, i, IsSpace)
        \* Page \d+ of \d+
        PageOf(s, i) ==
            IF /\ MatchAt(Lower(s), i, <<"p","a","g","e"," ">>)
               /\ Digits(s, i + 5) > 0
               /\ MatchAt(Lower(s), i + 5 + Digits(s, i + 5), <<" ","o","f"," ">>)
               /\ Digits(s, i + 9 + Digits(s, i + 5)) > 0
            THEN 9 + Digits(s, i + 5) + Digits(s, i + 9 + Digits(s, i + 5))
            ELSE 0
        \* www\.\S+
        Www(s, i) ==
            IF MatchAt(Lower(s), i, <<"w","w","w",".">>) /\ NonSpaces(s, i + 4) > 0
            THEN 4 + NonSpaces(s, i + 4)
            ELSE 0
        \* <copyright>\s*\d{4}
        Copyright(s, i) ==
            IF /\ MatchAt(s, i, <<"<copyright>">>)
               /\ Digits(s, i + 1 + Spaces(s, i + 1)) >= 4
            THEN 5 + Spaces(s, i + 1)
            ELSE 0
        \* All Rights Reserved
        Reserved(s, i) ==
            IF MatchAt(Lower(s), i, <<"a","l","l"," ","r","i","g","h","t","s"," ",
                                      "r","e","s","e","r","v","e","d">>)
            THEN 19
            ELSE 0
    IN  ReSub(ReSub(ReSub(ReSub(text, PageOf, <<>>), Www, <<>>), Copyright, <<>>),
              Reserved, <<>>)

\* _normalize_whitespace(text): runs of spaces become one space, then each
\* tab becomes a space
NormalizeWhitespace(text) ==
    LET SpaceRun(s, i) == RunLength(s, i, LAMBDA c : c = " ")
        OneSpace == ReSub(text, SpaceRun, <<" ">>)
    IN  [i \in 1..Len(OneSpace) |-> IF OneSpace[i] = "\t" THEN " " ELSE OneSpace[i]]

\* _fix_line_breaks(text)
FixLineBreaks(text) ==
    LET IsLowerLetter(c) == \E j \in 1..Len(LowerCase) : LowerCase[j] = c
        \* (?<=[a-z,])\n(?=[a-z])
        MidSentence(s, i) ==
            IF /\ s[i] = "\n"
               /\ i > 1 /\ (IsLowerLetter(s[i - 1]) \/ s[i - 1] = ",")
               /\ i < Len(s) /\ IsLowerLetter(s[i + 1])
            THEN 1
            ELSE 0
        \* \n{3,}
        ManyBreaks(s, i) ==
            IF RunLength(s, i, LAMBDA c : c = "\n") >= 3
            THEN RunLength(s, i, LAMBDA c : c = "\n")
            ELSE 0
    IN  ReSub(ReSub(text, MidSentence, <<" ">>), ManyBreaks, <<"\n", "\n">>)

\* _remove_special_chars(text): the white space that is no newline and no
\* space goes, then the control characters; "<NUL>" stands for a control
\* character of [\x00-\x08\x0b-\x0c\x0e-\x1f\x7f-\x9f]
RemoveSpecialChars(text) ==
    SelectSeq(SelectSeq(text, LAMBDA c : c = "\n" \/ ~IsSpace(c) \/ c = " "),
              LAMBDA c : c # "<NUL>")

\* TextCleaner.clean(text)
Clean(text) ==
    IF text = <<>> THEN <<>>
    ELSE Strip(RemoveSpecialChars(FixLineBreaks(NormalizeWhitespace(RemoveHeaders(text)))))

\* extract_sections(text): the sections truncate_for_llm reads. re.search
\* with re.IGNORECASE | re.DOTALL; <<>> for a section that is not found
ExtractSections(text) ==
    LET \* the shortest of the words that matches at position i, 0 without one
        WordAt(words, i) ==
            IF \E w \in words : MatchAt(Lower(text), i, w)
            THEN Min({Len(w) : w \in {x \in words : MatchAt(Lower(text), i, x)}})
            ELSE 0
        \* where the first blank line at or after position i starts, 0 without one
        BlankLineFrom(i) ==
            IF \E q \in i..Len(text) : MatchAt(text, q, <<"\n", "\n">>)
            THEN Min({q \in i..Len(text) : MatchAt(text, q, <<"\n", "\n">>)})
            ELSE 0
        \* (?:words).*?(?=\n\n)
        UpToBlankLine(words) ==
            LET Starts == {i \in 1..Len(text) :
                             WordAt(words, i) > 0 /\ BlankLineFrom(i + WordAt(words, i)) > 0}
            IN  IF Starts = {} THEN <<>>
                ELSE SubSeq(text, Min(Starts),
                            BlankLineFrom(Min(Starts) + WordAt(words, Min(Starts))) - 1)
        \* (?:words).*
        UpToEnd(words) ==
            LET Starts == {i \in 1..Len(text) : WordAt(words, i) > 0}
            IN  IF Starts = {} THEN <<>> ELSE SubSeq(text, Min(Starts), Len(text))
    IN  [header |-> <<>>,
         facts |-> UpToBlankLine({<<"f","a","c","t">>, <<"f","a","t","o","s">>,
                                  <<"r","e","l","a","t","o","r","i","o">>,
                                  <<"r","e","l","a","t","<o-acute>","r","i","o">>,
                                  <<"r","e","l","a","t","<O-acute>","r","i","o">>}),
         arguments |-> UpToBlankLine({<<"a","r","g","u","m","e","n","t">>,
                                      <<"a","r","g","u","m","e","n","t","o","s">>,
                                      <<"f","u","n","d","a","m","e","n","t","o">>}),
         decision |-> UpToEnd({<<"d","e","c","i","s","i","o","n">>,
                               <<"d","e","c","i","s","a","o">>,
                               <<"d","e","c","i","s","<a-tilde>","o">>,
                               <<"d","e","c","i","s","<A-tilde>","o">>,
                               <<"c","o","n","c","l","u","s","a","o">>,
                               <<"c","o","n","c","l","u","s","<a-tilde>","o">>,
                               <<"c","o","n","c","l","u","s","<A-tilde>","o">>,
                               <<"d","i","s","p","o","s","i","t","i","v","o">>}),
         full_text |-> text]

\* TextCleaner.truncate_for_llm(text, max_tokens)
TruncateForLlm(text, max_tokens) ==
    LET max_chars == max_tokens * 4
        sections == ExtractSections(text)
        priority_text ==
            Prefix(sections.header, 500) \o <<"\n", "\n">>
            \o Prefix(sections.decision, 2000) \o <<"\n", "\n">>
            \o Prefix(sections.facts, 2000)
    IN  IF Len(text) <= max_chars THEN text
        ELSE IF Len(priority_text) > max_chars THEN Prefix(priority_text, max_chars)
        ELSE priority_text \o <<"\n", "\n">>
             \o Prefix(sections.full_text, max_chars - Len(priority_text))

\* ------------------------------------------------------------------------
\* LLMExtractor.extract_entities: the retry loop around the model call
\* ------------------------------------------------------------------------

MAX_RETRIES == 5

\* the reply of Scenario A: the canonical header and eight values
ScenarioAReply ==
    <<"a","u","t","o","r",",","r","e","u",",","a","s","s","u","n","t","o","_","p","r","i","n","c","i","p","a","l",",","t","i","p","o","_","d","e","c","i","s","a","o",",","r","e","s","u","l","t","a","d","o",",","r","e","s","u","m","o","_","5","_","l","i","n","h","a","s",",","d","a","t","a","_","d","e","c","i","s","a","o",",","t","r","i","b","u","n","a","l","\n","J","o","h","n"," ","D","o","e",",","A","C","M","E"," ","C","o","r","p",",","c","o","n","t","r","a","c","t"," ","d","i","s","p","u","t","e",",","j","u","d","g","m","e","n","t",",","g","r","a","n","t","e","d",",","P","l","a","i","n","t","i","f","f"," ","p","r","e","v","a","i","l","e","d",".",",","1","5","/","0","3","/","2","0","2","0",",","D","i","s","t","r","i","c","t"," ","C","o","u","r","t">>

\* the model wrapped the header/data pair in prose lines
ProseWrappedReply ==
    <<"H","e","r","e",":","\n","a","u","t","o","r",",","r","e","u",",","a","s","s","u","n","t","o","_","p","r","i","n","c","i","p","a","l",",","t","r","i","b","u","n","a","l","\n","J","o","h","n",",","A","C","M","E",",","t","a","x",",","S","T","F","\n","B","y","e">>

\* a reply with no CSV-like structure
ProseReply == <<"S","o","r","r","y",".","\n","I"," ","c","a","n","n","o","t"," ","h","e","l","p",".">>

\* the replies of the model
Replies ==
    {ScenarioAReply, ProseWrappedReply, ProseReply,
     \* a valid but incomplete reply: two of the eight columns
     <<"a","u","t","o","r",",","t","r","i","b","u","n","a","l","\n","J","o","h","n",",","S","T","F">>,
     \* a reply whose lines end with a bare carriage return
     <<"R","e","s","u","l","t","\r","a","u","t","o","r",",","r","e","u",",","a","s","s","u","n","t","o","_","p","r","i","n","c","i","p","a","l",",","t","r","i","b","u","n","a","l","\r","J","o","h","n",",","A","C","M","E",",","t","a","x",",","S","T","F">>,
     \* a bare carriage return inside a line, no CSV-dense line
     <<"n","o","\r","d","a","t","a">>,
     \* a reply that opens a quote it never closes
     <<"\"","R","e","s","u","l","t","\n","a","u","t","o","r",",","r","e","u",",","a","s","s","u","n","t","o","_","p","r","i","n","c","i","p","a","l",",","t","r","i","b","u","n","a","l","\n","J","o","h","n",",","A","C","M","E",",","t","a","x",",","S","T","F">>,
     \* a reply of blank lines only
     <<" ","\n"," ">>}

\* what generate_content hands back: response.text, or candidates whose parts
\* carry the text (broken: reading the parts raises, the candidate's str() is
\* used), or response.parsed, or none of them
Responses ==
    {[kind |-> "text", text |-> r, parts |-> <<>>, parsed |-> Absent] : r \in Replies}
    \cup {[kind |-> "candidates", text |-> <<>>,
           parts |-> <<<<"a","u","t","o","r",",","t","r","i","b","u","n","a","l","\n">>, <<"J","o","h","n",",","S","T","F">>>>,
           parsed |-> Absent],
          [kind |-> "broken_candidates", text |-> ProseReply, parts |-> <<>>,
           parsed |-> Absent],
          [kind |-> "parsed", text |-> <<>>, parts |-> <<>>,
           parsed |-> [k \in {"autor", "extra"} |-> <<"J","o","h","n">>] ],
          [kind |-> "none", text |-> <<>>, parts |-> <<>>, parsed |-> Absent]}

\* the source documents handed to extract_entities
Texts ==
    {\* labels the heuristic finds
     <<"A","u","t","o","r",":"," ","J","o","a","o","\n","d","i","s","p","o","s","e","d"," ","-"," ","g","r","a","n","t","e","d"," ","1","/","2","/","2","0","2","0">>,
     \* no label at all
     <<"n","o","t","h","i","n","g"," ","t","o"," ","s","e","e">>,
     \* a court named after the words in the
     <<"I","n"," ","t","h","e"," ","H","i","g","h"," ","C","o","u","r","t",":"," ","o","r","d","e","r">>}

\* raw_text as lines 115-124 and 131 build it
RawText(resp) ==
    Strip(CASE resp.kind = "text" -> resp.text
            [] resp.kind = "candidates" -> Join(resp.parts, <<>>)
            [] resp.kind = "broken_candidates" -> resp.text
            [] OTHER -> <<>>)

\* {k: parsed.get(k) for k in CSV_FIELDS}
ParsedToDict(parsed) == [k \in FieldKeys |-> IF k \in DOMAIN parsed THEN parsed[k] ELSE None]

\* range(1, attempts + 1)
Attempts(r) == IF r THEN MAX_RETRIES ELSE 1

\* a wait that doubles from the attempt number itself
BackoffFromAttempt(k) == 2 ^ k

\* time.sleep(2 ** (attempt - 1))
Backoff(k) == 2 ^ (k - 1)

\* an except clause that lets the exception of the last attempt through
OnExceptionReraiseLast(k, n) == IF k = n THEN "raise" ELSE "continue"

\* what the except clause of the loop does with an exception: it logs it
OnException(k, n) == "continue"

\* a test that takes only a dict with every value present for a result
TruthyWhenComplete(d) ==
    d # Absent /\ d # Raised /\ DOMAIN d # {} /\ \A k \in DOMAIN d : d[k] # None

\* a test that takes only a dict holding some value for a result
TruthyWithValue(d) ==
    d # Absent /\ d # Raised /\ \E k \in DOMAIN d : d[k] # None

\* bool(d) of an Optional[Dict]: None and the empty dict are false
Truthy(d) == d # Absent /\ d # Raised /\ DOMAIN d # {}

VARIABLES
    pc,        \* where extract_entities stands
    text,      \* the document text it was called with
    retry,     \* its retry argument
    attempt,   \* the loop variable
    raw_text,  \* the reply of the current attempt
    calls,     \* generate_content calls made so far
    sleeps,    \* the time.sleep durations so far, in order
    result,    \* what it returned
    ran,       \* the strategies run in the current attempt and what each yielded
    hist       \* how each finished attempt ended

\* the state of a run of the parser and validator functions on their own
VARIABLES
    mode,      \* what is run: "roundtrip", "reply", "echo", "validate", "heuristic",
               \* "clean" or "truncate"
    stage,     \* how far the run is
    input,     \* the FieldSet to encode, the cells of a reply, or a dict
    wire,      \* the two-line text
    entities,  \* the dict handed to the validator
    report,    \* what validate returned
    score      \* what calculate_completeness returned

evars == <<pc, text, retry, attempt, raw_text, calls, sleeps, result, ran, hist>>

fvars == <<mode, stage, input, wire, entities, report, score>>

\* the state of one process_single_pdf call
VARIABLES
    step,         \* where process_single_pdf stands
    doc,          \* what extract_text returned
    found,        \* what extract_entities returned
    outcome,      \* what validate returned
    completeness, \* what calculate_completeness returned
    cases,        \* the db.insert_case calls issued, in order
    metric_rows,  \* the db.insert_metric calls issued, in order
    extractions,  \* metrics_calc.extractions
    returned      \* the value the call returned, <<>> while it runs

pvars == <<step, doc, found, outcome, completeness, cases, metric_rows,
           extractions, returned>>

\* the state around a process_single_pdf call: its caller and file, the
\* database, and the batch it is part of
VARIABLES
    entry,       \* the handler that runs: "cli" for process_single_pdf, "api" for extract_from_pdf
    pdf_path,    \* the name of the file it processes
    db_cases,    \* the cases table: the row of every filename it holds
    db_metrics,  \* the processing_metrics table: its rows in order
    cursor,      \* "free", or the statement a call has executed and not yet committed
    pdf_files,   \* process_directory: the files not yet processed
    successful,  \* process_directory: its count of True results
    failed,      \* process_directory: its count of False results
    other        \* the locals of a second call that is suspended

bvars == <<entry, pdf_path, db_cases, db_metrics, cursor, pdf_files, successful,
           failed, other>>

vars == <<evars, fvars, pvars, bvars>>

\* validate has not run
NoReport == [is_valid |-> FALSE, validated |-> Absent, errors |-> <<>>]

\* no extract_entities call is under way
ExtractorIdle ==
    /\ pc = "idle"
    /\ text = <<>>
    /\ retry = TRUE
    /\ attempt = 0
    /\ raw_text = <<>>
    /\ calls = 0
    /\ sleeps = <<>>
    /\ result = Absent
    /\ ran = <<>>
    /\ hist = <<>>

\* no function is run on its own
FunctionsIdle ==
    /\ mode = "off"
    /\ stage = "off"
    /\ input = Absent
    /\ wire = <<>>
    /\ entities = Absent
    /\ report = NoReport
    /\ score = <<0, 1>>

\* no process_single_pdf call is under way
PipelineIdle ==
    /\ step = "off"
    /\ doc = <<>>
    /\ found = Absent
    /\ outcome = NoReport
    /\ completeness = <<0, 1>>
    /\ cases = <<>>
    /\ metric_rows = <<>>
    /\ extractions = <<>>
    /\ returned = <<>>

\* the locals of a call that has not started
NoCall ==
    [entry |-> "cli", pdf_path |-> "", step |-> "off", doc |-> <<>>, found |-> Absent,
     outcome |-> NoReport, completeness |-> <<0, 1>>, returned |-> <<>>]

\* an empty database, and no batch and no second call under way
BatchIdle ==
    /\ entry = "cli"
    /\ pdf_path = ""
    /\ db_cases = <<>>
    /\ db_metrics = <<>>
    /\ cursor = "free"
    /\ pdf_files = <<>>
    /\ successful = 0
    /\ failed = 0
    /\ other = NoCall

Init == ExtractorIdle /\ FunctionsIdle /\ PipelineIdle /\ BatchIdle

\* extract_entities(text, language, retry) is called
Extract(t, r) ==
    /\ pc = "idle"
    /\ text' = t
    /\ retry' = r
    /\ attempt' = 1
    /\ pc' = "call"
    /\ UNCHANGED <<raw_text, calls, sleeps, result, ran, hist>>
    /\ UNCHANGED <<fvars, pvars, bvars>>

\* generate_content raises
ModelRaises ==
    /\ pc = "call"
    /\ calls' = calls + 1
    /\ ran' = <<>>
    /\ raw_text' = <<>>
    /\ hist' = Append(hist, "raised")
    /\ pc' = IF OnException(attempt, Attempts(retry)) = "continue" THEN "after" ELSE "raised"
    /\ UNCHANGED <<text, retry, attempt, sleeps, result>>
    /\ UNCHANGED <<fvars, pvars, bvars>>

\* generate_content returns resp
ModelReturns(resp) ==
    /\ pc = "call"
    /\ calls' = calls + 1
    /\ ran' = <<>>
    /\ IF resp.kind = "parsed"
       THEN /\ result' = ParsedToDict(resp.parsed)
            /\ raw_text' = <<>>
            /\ hist' = Append(hist, "returned")
            /\ pc' = "done"
       ELSE /\ raw_text' = RawText(resp)
            /\ pc' = "strict"
            /\ UNCHANGED <<result, hist>>
    /\ UNCHANGED <<text, retry, attempt, sleeps>>
    /\ UNCHANGED <<fvars, pvars, bvars>>

\* "if parsed: return parsed" for what a parse yielded, else on to the
\* next strategy
ReturnOrGoOn(strategy, parsed, goon) ==
    /\ ran' = Append(ran, [strategy |-> strategy, yield |-> parsed])
    /\ IF Truthy(parsed)
       THEN /\ result' = parsed
            /\ hist' = Append(hist, "returned")
            /\ pc' = "done"
       ELSE /\ pc' = goon
            /\ UNCHANGED <<result, hist>>

\* a strict parse that hands over to the heuristic, past the embedded block
StrictParseThenHeuristic ==
    /\ pc = "strict"
    /\ ReturnOrGoOn("strict", ParseCsvOutput(raw_text), "heuristic")
    /\ UNCHANGED <<text, retry, attempt, raw_text, calls, sleeps>>
    /\ UNCHANGED <<fvars, pvars, bvars>>

\* lines 135-137: the strict parse of the reply
StrictParse ==
    /\ pc = "strict"
    /\ ReturnOrGoOn("strict", ParseCsvOutput(raw_text), "embedded")
    /\ UNCHANGED <<text, retry, attempt, raw_text, calls, sleeps>>
    /\ UNCHANGED <<fvars, pvars, bvars>>

\* lines 141-144: the embedded block is parsed when there is one
ParseEmbedded(embedded) ==
    IF embedded # None /\ embedded # <<>> THEN ParseCsvOutput(embedded) ELSE Absent

\* lines 140-144: the embedded block and its parse
EmbeddedBlock ==
    /\ pc = "embedded"
    /\ ReturnOrGoOn("embedded", ParseEmbedded(ExtractCsvBlock(raw_text)), "heuristic")
    /\ UNCHANGED <<text, retry, attempt, raw_text, calls, sleeps>>
    /\ UNCHANGED <<fvars, pvars, bvars>>

\* lines 148-155 for what the heuristic yielded: an exception it raised is
\* caught by the loop's except clause
ReturnOrFail(heuristic) ==
    /\ ran' = Append(ran, [strategy |-> "heuristic", yield |-> heuristic])
    /\ IF heuristic = Raised
       THEN /\ hist' = Append(hist, "heuristic_raised")
            /\ pc' = IF OnException(attempt, Attempts(retry)) = "continue"
                     THEN "after" ELSE "raised"
            /\ UNCHANGED result
       ELSE IF Truthy(heuristic)
       THEN /\ result' = heuristic
            /\ hist' = Append(hist, "returned")
            /\ pc' = "done"
       ELSE /\ hist' = Append(hist, "no_parse")
            /\ pc' = "after"
            /\ UNCHANGED result

\* lines 148-155: the heuristic on the document text
Heuristic ==
    /\ pc = "heuristic"
    /\ ReturnOrFail(HeuristicExtract(text))
    /\ UNCHANGED <<text, retry, attempt, raw_text, calls, sleeps>>
    /\ UNCHANGED <<fvars, pvars, bvars>>

\* lines 158-159: the wait before the next attempt
Sleep ==
    /\ pc = "after"
    /\ attempt < Attempts(retry)
    /\ sleeps' = Append(sleeps, Backoff(attempt))
    /\ attempt' = attempt + 1
    /\ pc' = "call"
    /\ UNCHANGED <<text, retry, raw_text, calls, result, ran, hist>>
    /\ UNCHANGED <<fvars, pvars, bvars>>

\* line 161: the attempts are used up
GiveUp ==
    /\ pc = "after"
    /\ ~(attempt < Attempts(retry))
    /\ result' = Absent
    /\ pc' = "done"
    /\ UNCHANGED <<text, retry, attempt, raw_text, calls, sleeps, ran, hist>>
    /\ UNCHANGED <<fvars, pvars, bvars>>

Next ==
    \/ \E t \in Texts, r \in BOOLEAN : Extract(t, r)
    \/ ModelRaises
    \/ \E resp \in Responses : ModelReturns(resp)
    \/ StrictParse
    \/ EmbeddedBlock
    \/ Heuristic
    \/ Sleep
    \/ GiveUp

Spec == Init /\ [][Next]_vars

\* the fields of the Scenario A reply
ScenarioAFields ==
    [k \in FieldKeys |->
       CASE k = "autor" -> <<"J","o","h","n"," ","D","o","e">>
         [] k = "reu" -> <<"A","C","M","E"," ","C","o","r","p">>
         [] k = "assunto_principal" -> <<"c","o","n","t","r","a","c","t"," ","d","i","s","p","u","t","e">>
         [] k = "tipo_decisao" -> <<"j","u","d","g","m","e","n","t">>
         [] k = "resultado" -> <<"g","r","a","n","t","e","d">>
         [] k = "resumo_5_linhas" -> <<"P","l","a","i","n","t","i","f","f"," ","p","r","e","v","a","i","l","e","d",".">>
         [] k = "data_decisao" -> <<"1","5","/","0","3","/","2","0","2","0">>
         [] k = "tribunal" -> <<"D","i","s","t","r","i","c","t"," ","C","o","u","r","t">>]

\* ------------------------------------------------------------------------
\* The parser, the encoder and the validator run on their own
\* ------------------------------------------------------------------------

\* the longest value drawn character by character
MaxValueLen == 3

\* the non-empty strings over chars of at most MaxValueLen characters
StringsOver(chars) == UNION {[1..n -> chars] : n \in 1..MaxValueLen}

\* the characters of the values encoded and parsed back
ValueChars == {"n", ",", "\"", "\n", " ", "\\"}

\* the characters of the cells of a reply's data line
CellChars == {"n", " ", "\"", "\\"}

\* the most pieces a text is put together from
MaxPieces == 4

\* the texts put together from at most MaxPieces of the pieces
TextsOf(pieces) ==
    UNION {{Flatten(q) : q \in [1..n -> pieces]} : n \in 0..MaxPieces}

\* the pieces of the texts cleaned: a letter, the white space, a control
\* character, and two headers
DirtyPieces ==
    {<<"a">>, <<" ">>, <<"\t">>, <<"\n">>, <<"<NUL>">>,
     <<"w","w","w",".","x">>, <<"P","a","g","e"," ","1"," ","o","f"," ","2">>}

\* the pieces of the texts truncated: a letter, a blank line, and the words
\* that start the facts and the decision
SectionPieces ==
    {<<"x">>, <<"\n","\n">>, <<"F","A","C","T","S">>, <<"D","e","c","i","s","i","o","n">>}

\* the max_tokens the texts are truncated to
TokenBudgets == {1, 2}

\* the FieldSets encoded: every field absent, or every field present
Backgrounds == {[k \in FieldKeys |-> None], [k \in FieldKeys |-> <<"x">>]}

\* the cells of the data line of the Scenario A reply
ScenarioACells ==
    <<<<"J","o","h","n"," ","D","o","e">>,
      <<"A","C","M","E"," ","C","o","r","p">>,
      <<"c","o","n","t","r","a","c","t"," ","d","i","s","p","u","t","e">>,
      <<"j","u","d","g","m","e","n","t">>,
      <<"g","r","a","n","t","e","d">>,
      <<"P","l","a","i","n","t","i","f","f"," ","p","r","e","v","a","i","l","e","d",".">>,
      <<"1","5","/","0","3","/","2","0","2","0">>,
      <<"D","i","s","t","r","i","c","t"," ","C","o","u","r","t">>>>

\* the dicts validated: FieldSets, a dict with fields missing and a key of
\* its own, and a FieldSet most validators reject
Dicts ==
    Backgrounds
    \cup {ScenarioAFields,
          [k \in {"autor", "resumo_5_linhas", "filename"} |->
             CASE k = "autor" -> <<"J","o","h","n">>
               [] k = "resumo_5_linhas" -> <<"o","k">>
               [] k = "filename" -> <<"a",".","p","d","f">>],
          [k \in FieldKeys |->
             CASE k = "autor" -> <<"1">>
               [] k = "reu" -> <<"1","2"," ","3">>
               [] k = "assunto_principal" -> <<"a","b">>
               [] k = "tipo_decisao" -> <<"w","e","i","r","d">>
               [] k = "resultado" -> <<"m","a","y","b","e">>
               [] k = "resumo_5_linhas" -> <<" ","\n"," ">>
               [] k = "data_decisao" -> <<"s","o","o","n">>
               [] k = "tribunal" -> <<"x"," ">>]}

\* the most lines of a summary drawn line by line
MaxLines == 7

\* date texts: one for each layout, one of a year below 1000, some that
\* reach the numeric triplet, and some that are no date
DateTexts ==
    {<<"5","/","3","/","2","0","2","1">>,
     <<"5","-","3","-","2","0","2","1">>,
     <<"2","0","2","1","-","0","3","-","0","5">>,
     <<"5",".","3",".","2","0","2","1">>,
     <<"5"," ","M","a","r","c","h"," ","2","0","2","1">>,
     <<"0","5","/","0","3","/","0","9","9","9">>,
     <<"s","e","e"," ","5","/","3","/","2","0","2","1"," ","o","k">>,
     <<"3","1","/","0","2","/","2","0","2","0">>,
     <<"2","9","/","0","2","/","2","0","2","4">>,
     <<"5","/","3","/","2","1">>,
     <<"2","0","2","0">>,
     <<"s","o","o","n">>}

\* the summaries of 1 to MaxLines one-digit-or-more lines, and a summary
\* whose seven lines carry blanks around and between them
Summaries ==
    {Join([i \in 1..n |-> Decimal(i)], <<"\n">>) : n \in 1..MaxLines}
    \cup {<<" ","a"," ","\n","\n"," ","b","\n","c","\n","d","\n","e"," ","\n","f","\n","g">>,
          <<" ","a"," ","\n">>}

\* the values a key of a validated dict is set to
DictValues ==
    {None, <<>>, <<"n","u","l","l">>, <<"N","U","L","L">>, <<"N","o","n","e">>,
     <<"N","/","A">>, <<" ","n","u","l","l">>, <<" ">>, <<"x">>, <<"a","b">>,
     <<"a","b","c">>, <<"1","2">>, <<"g","r","a","n","t","e","d">>,
     <<"N","o","t"," ","D","E","F","E","R","I","D","O">>, <<"m","a","y","b","e">>,
     <<"a","\n","\n","b">>,
     <<"M","a","r","c","h"," ","5",","," ","2","0","2","1">>,
     <<"3","1",".","0","4",".","2","0","2","0">>}
    \cup Summaries \cup DateTexts

\* d with key k set to v
With(d, k, v) == [x \in DOMAIN d \cup {k} |-> IF x = k THEN v ELSE d[x]]

\* a run starts on the input x
StartRun(m, x) ==
    /\ mode = m
    /\ stage = "input"
    /\ input = x
    /\ wire = <<>>
    /\ entities = Absent
    /\ report = NoReport
    /\ score = <<0, 1>>

\* what the documents handed to _heuristic_extract are made of: a party
\* label, a word, a court, a blank and a date
HeuristicPieces ==
    {<<"a","u","t","o","r",":">>, <<" ","x">>, <<"c","o","u","r","t">>, <<" ">>,
     <<"1","/","2","/","2","0">>}

InitFunctions ==
    /\ ExtractorIdle
    /\ PipelineIdle
    /\ BatchIdle
    /\ \/ \E b \in Backgrounds, k \in FieldKeys, v \in StringsOver(ValueChars) \cup {None} :
             StartRun("roundtrip", With(b, k, v))
       \/ \E i \in 1..Len(CSV_FIELDS) :
          \E v \in StringsOver(CellChars) \cup {ScenarioACells[i]} :
             StartRun("reply", [j \in 1..Len(CSV_FIELDS) |->
                                  IF j = i THEN v ELSE ScenarioACells[j]])
       \/ \E i \in 1..Len(CSV_FIELDS) :
          \E v \in StringsOver(CellChars) \cup {ScenarioACells[i]} :
             StartRun("echo", [j \in 1..Len(CSV_FIELDS) |->
                                 IF j = i THEN v ELSE ScenarioACells[j]])
       \/ \E d \in Dicts, k \in FieldKeys \cup {"filename"}, v \in DictValues :
             StartRun("validate", With(d, k, v))
       \/ \E t \in TextsOf(HeuristicPieces) : StartRun("heuristic", t)
       \/ \E t \in TextsOf(DirtyPieces) : StartRun("clean", t)
       \/ \E t \in TextsOf(SectionPieces), n \in TokenBudgets :
             StartRun("truncate", [text |-> t, max_tokens |-> n])

\* the canonical header line and dict_to_csv_line(input)
EncodeFields ==
    /\ mode = "roundtrip" /\ stage = "input"
    /\ wire' = CanonicalHeader \o <<"\n">> \o DictToCsvLine(input)
    /\ stage' = "wire"
    /\ UNCHANGED <<mode, input, entities, report, score, evars, pvars, bvars>>

\* a reply of the model: the canonical header line and the cells, comma
\* separated
ReplyOfCells ==
    /\ mode = "reply" /\ stage = "input"
    /\ wire' = CanonicalHeader \o <<"\n">> \o Join(input, <<",">>)
    /\ stage' = "wire"
    /\ UNCHANGED <<mode, input, entities, report, score, evars, pvars, bvars>>

\* a reply of the model that follows the prompt: the column list as the
\* prompt prints it, then the cells, comma separated
EchoPromptHeader ==
    /\ mode = "echo" /\ stage = "input"
    /\ wire' = PromptColumns \o <<"\n">> \o Join(input, <<",">>)
    /\ stage' = "wire"
    /\ UNCHANGED <<mode, input, entities, report, score, evars, pvars, bvars>>

\* _parse_csv_output(wire)
ParseWire ==
    /\ stage = "wire"
    /\ entities' = ParseCsvOutput(wire)
    /\ stage' = "entities"
    /\ UNCHANGED <<mode, input, wire, report, score, evars, pvars, bvars>>

\* a dict is handed to the validator as it is
TakeDict ==
    /\ mode = "validate" /\ stage = "input"
    /\ entities' = input
    /\ stage' = "entities"
    /\ UNCHANGED <<mode, input, wire, report, score, evars, pvars, bvars>>

\* _heuristic_extract(input)
HeuristicOnInput ==
    /\ mode = "heuristic" /\ stage = "input"
    /\ entities' = HeuristicExtract(input)
    /\ stage' = "entities"
    /\ UNCHANGED <<mode, input, wire, report, score, evars, pvars, bvars>>

\* validator.validate(entities)
ValidateEntities ==
    /\ mode \in {"reply", "validate", "heuristic"} /\ stage = "entities"
    /\ entities # Absent /\ entities # Raised
    /\ report' = Validate(entities)
    /\ stage' = "validated"
    /\ UNCHANGED <<mode, input, wire, entities, score, evars, pvars, bvars>>

\* validator.calculate_completeness(validated_entities)
CompletenessOfValidated ==
    /\ stage = "validated"
    /\ score' = CalculateCompleteness(report.validated)
    /\ stage' = "scored"
    /\ UNCHANGED <<mode, input, wire, entities, report, evars, pvars, bvars>>

\* validator.calculate_completeness(entities)
CompletenessOfEntities ==
    /\ mode = "validate" /\ stage = "entities"
    /\ score' = CalculateCompleteness(entities)
    /\ stage' = "scored"
    /\ UNCHANGED <<mode, input, wire, entities, report, evars, pvars, bvars>>

\* validator.validate(validated_entities): a second pass over what the first
\* returned
ValidateAgain ==
    /\ mode = "validate" /\ stage = "validated"
    /\ entities' = report.validated
    /\ report' = Validate(report.validated)
    /\ stage' = "revalidated"
    /\ UNCHANGED <<mode, input, wire, score, evars, pvars, bvars>>

\* text_cleaner.clean(input)
CleanInput ==
    /\ mode = "clean" /\ stage = "input"
    /\ wire' = Clean(input)
    /\ stage' = "cleaned"
    /\ UNCHANGED <<mode, input, entities, report, score, evars, pvars, bvars>>

\* text_cleaner.truncate_for_llm(text, max_tokens)
TruncateInput ==
    /\ mode = "truncate" /\ stage = "input"
    /\ wire' = TruncateForLlm(input.text, input.max_tokens)
    /\ stage' = "truncated"
    /\ UNCHANGED <<mode, input, entities, report, score, evars, pvars, bvars>>

NextFunctions ==
    \/ EncodeFields
    \/ ReplyOfCells
    \/ EchoPromptHeader
    \/ ParseWire
    \/ TakeDict
    \/ HeuristicOnInput
    \/ ValidateEntities
    \/ ValidateAgain
    \/ CompletenessOfValidated
    \/ CompletenessOfEntities
    \/ CleanInput
    \/ TruncateInput

SpecFunctions == InitFunctions /\ [][NextFunctions]_vars

\* ------------------------------------------------------------------------
\* LegalExtractionPipeline.process_single_pdf: one document from text to
\* database
\* ------------------------------------------------------------------------

\* what extract_text hands back: None, the empty text, or a document
DocTexts == {None, <<>>} \cup Texts

\* the FieldSets extract_entities builds its results from
ExtractedFieldSets == {d \in Dicts : DOMAIN d = FieldKeys}

\* what extract_entities hands back: None, or a FieldSet whose present
\* values are not empty
ExtractionResults ==
    {Absent}
    \cup {With(d, k, v) : d \in ExtractedFieldSets, k \in FieldKeys,
                          v \in DictValues \ {<<>>}}

\* the 0.0 handed to add_extraction for a failure
ZeroCompleteness == <<0, 1>>

\* the names of the files processed
PdfNames == {"a.pdf", "b.pdf"}

\* metrics_calc.add_extraction(...), the time left out
AddExtraction(e, c, ok, errs) ==
    extractions' = Append(extractions,
                          [filename |-> pdf_path, entities |-> e, completeness |-> c,
                           success |-> ok, errors |-> errs])

\* json.dumps(validation_errors) if validation_errors else None
ErrorsJson(validation_errors) ==
    IF validation_errors # <<>> THEN <<"json", validation_errors>> ELSE <<"NULL">>

\* the row INSERT OR REPLACE INTO cases writes, the language, the year and
\* the timestamps left out: e.get(field) for each of the eight columns
CaseRow(e, completeness_score, validation_errors) ==
    [fields |-> [k \in FieldKeys |-> IF k \in DOMAIN e THEN e[k] ELSE None],
     completeness_score |-> completeness_score,
     validation_errors |-> ErrorsJson(validation_errors)]

\* a table that keeps the row it has for a filename: INSERT OR IGNORE
InsertOrIgnore(table, filename, row) ==
    IF filename \in DOMAIN table THEN table ELSE With(table, filename, row)

\* the cases table after INSERT OR REPLACE of a row: filename is UNIQUE, so
\* the row takes the place of the one the table had for the filename
InsertOrReplace(table, filename, row) == With(table, filename, row)

\* the row INSERT INTO processing_metrics writes, the time left out
MetricRow(filename, num_retries, success) ==
    [filename |-> filename, num_retries |-> num_retries, success |-> success,
     error_message |-> None]

InitPipeline ==
    /\ ExtractorIdle
    /\ FunctionsIdle
    /\ entry \in {"cli", "api"}
    /\ pdf_path = "a.pdf"
    /\ step = "text"
    /\ doc \in DocTexts
    /\ found = Absent
    /\ outcome = NoReport
    /\ completeness = <<0, 1>>
    /\ cases = <<>>
    /\ metric_rows = <<>>
    /\ extractions = <<>>
    /\ returned = <<>>
    /\ db_cases = <<>>
    /\ db_metrics = <<>>
    /\ cursor = "free"
    /\ pdf_files = <<>>
    /\ successful = 0
    /\ failed = 0
    /\ other = NoCall

\* main.py lines 68-78: extract_text gave no text
EmptyText ==
    /\ entry = "cli"
    /\ step = "text"
    /\ doc \in {None, <<>>}
    /\ AddExtraction(Absent, ZeroCompleteness, FALSE,
                     <<<<"T","e","x","t","o"," ","v","a","z","i","o">>>>)
    /\ returned' = <<FALSE>>
    /\ step' = "done"
    /\ UNCHANGED <<doc, found, outcome, completeness, cases, metric_rows, evars, fvars, bvars>>

\* api/main.py lines 108-109: extract_text gave no text
ApiNoText ==
    /\ entry = "api"
    /\ step = "text"
    /\ doc \in {None, <<>>}
    /\ returned' = <<"HTTP", 400>>
    /\ step' = "done"
    /\ UNCHANGED <<doc, found, outcome, completeness, cases, metric_rows,
                   extractions, evars, fvars, bvars>>

\* main.py lines 81-89, api/main.py lines 112-119: the text is cleaned and
\* truncated
CleanText ==
    /\ step = "text"
    /\ doc \notin {None, <<>>}
    /\ step' = "llm"
    /\ UNCHANGED <<doc, found, outcome, completeness, cases, metric_rows,
                   extractions, returned, evars, fvars, bvars>>

\* a pipeline without the except clause: the exception of _init_llm leaves
\* process_single_pdf
InitLlmRaisesUncaught ==
    /\ entry = "cli"
    /\ step = "llm"
    /\ step' = "aborted"
    /\ UNCHANGED <<doc, found, outcome, completeness, cases, metric_rows, extractions,
                   returned, evars, fvars, bvars>>

\* main.py lines 92, 147-160: _init_llm raises and the except clause reports
\* the failure
InitLlmRaises ==
    /\ entry = "cli"
    /\ step = "llm"
    /\ AddExtraction(Absent, ZeroCompleteness, FALSE, <<<<"<str(e)>">>>>)
    /\ returned' = <<FALSE>>
    /\ step' = "done"
    /\ UNCHANGED <<doc, found, outcome, completeness, cases, metric_rows, evars, fvars, bvars>>

\* api/main.py lines 122-127: LLMExtractor() raises
ApiLlmRaises ==
    /\ entry = "api"
    /\ step = "llm"
    /\ returned' = <<"HTTP", 500>>
    /\ step' = "done"
    /\ UNCHANGED <<doc, found, outcome, completeness, cases, metric_rows,
                   extractions, evars, fvars, bvars>>

\* main.py line 94, api/main.py line 124: extract_entities returns
ExtractEntities(e) ==
    /\ step = "llm"
    /\ found' = e
    /\ step' = "extracted"
    /\ UNCHANGED <<doc, outcome, completeness, cases, metric_rows, extractions,
                   returned, evars, fvars, bvars>>

\* a pipeline that writes a failed metric row to the database when the
\* extraction gave nothing
ExtractionFailedWithMetricRow ==
    /\ entry = "cli"
    /\ step = "extracted"
    /\ ~Truthy(found)
    /\ AddExtraction(Absent, ZeroCompleteness, FALSE,
                     <<<<"F","a","l","h","a"," ","n","a"," ","e","x","t","r","a","<c-cedilla>","<a-tilde>","o">>>>)
    /\ metric_rows' = Append(metric_rows, [filename |-> pdf_path, num_retries |-> 1,
                                           success |-> FALSE])
    /\ db_metrics' = Append(db_metrics, MetricRow(pdf_path, 1, FALSE))
    /\ returned' = <<FALSE>>
    /\ step' = "done"
    /\ UNCHANGED <<doc, found, outcome, completeness, cases, evars, fvars>>
    /\ UNCHANGED <<entry, pdf_path, db_cases, cursor, pdf_files, successful,
                   failed, other>>

\* main.py lines 96-106: the extraction gave nothing
ExtractionFailed ==
    /\ entry = "cli"
    /\ step = "extracted"
    /\ ~Truthy(found)
    /\ AddExtraction(Absent, ZeroCompleteness, FALSE,
                     <<<<"F","a","l","h","a"," ","n","a"," ","e","x","t","r","a","<c-cedilla>","<a-tilde>","o">>>>)
    /\ returned' = <<FALSE>>
    /\ step' = "done"
    /\ UNCHANGED <<doc, found, outcome, completeness, cases, metric_rows, evars, fvars, bvars>>

\* api/main.py lines 129-130: the extraction gave nothing
ApiExtractionFailed ==
    /\ entry = "api"
    /\ step = "extracted"
    /\ ~Truthy(found)
    /\ returned' = <<"HTTP", 500>>
    /\ step' = "done"
    /\ UNCHANGED <<doc, found, outcome, completeness, cases, metric_rows,
                   extractions, evars, fvars, bvars>>

\* a pipeline in which an invalid FieldSet ends the call as a failure
ValidateFoundBlocking ==
    /\ step = "extracted"
    /\ Truthy(found)
    /\ outcome' = Validate(found)
    /\ completeness' = CalculateCompleteness(Validate(found).validated)
    /\ IF Validate(found).is_valid
       THEN /\ step' = "validated"
            /\ UNCHANGED <<extractions, returned>>
       ELSE /\ step' = "done"
            /\ AddExtraction(Absent, ZeroCompleteness, FALSE, Validate(found).errors)
            /\ returned' = <<FALSE>>
    /\ UNCHANGED <<doc, found, cases, metric_rows, evars, fvars, bvars>>

\* main.py lines 109-110, api/main.py lines 133-134: validate, then
\* calculate_completeness on what it normalized
ValidateFound ==
    /\ step = "extracted"
    /\ Truthy(found)
    /\ outcome' = Validate(found)
    /\ completeness' = CalculateCompleteness(Validate(found).validated)
    /\ step' = "validated"
    /\ UNCHANGED <<doc, found, cases, metric_rows, extractions, returned, evars, fvars, bvars>>

\* main.py lines 113-122, api/main.py lines 137-145: db.insert_case is
\* called; for an sqlite3.Error it writes nothing and returns False, and the
\* caller does not look at what it returns
InsertCase(stored) ==
    /\ step = "validated"
    /\ cursor = "free"
    /\ cases' = Append(cases, [filename |-> pdf_path,
                               entities |-> outcome.validated,
                               completeness_score |-> completeness,
                               validation_errors |-> outcome.errors,
                               stored |-> stored])
    /\ db_cases' = IF stored
                   THEN InsertOrReplace(db_cases, pdf_path,
                                        CaseRow(outcome.validated, completeness,
                                                outcome.errors))
                   ELSE db_cases
    /\ step' = "saved"
    /\ UNCHANGED <<doc, found, outcome, completeness, metric_rows, extractions,
                   returned, evars, fvars>>
    /\ UNCHANGED <<entry, pdf_path, db_metrics, cursor, pdf_files, successful,
                   failed, other>>

\* db.insert_metric(filename, time, num_retries=1, success=True): the row is
\* written unless the cursor is inside a statement of another call, which
\* raises an sqlite3.Error that insert_metric catches
InsertMetric ==
    /\ metric_rows' = Append(metric_rows, [filename |-> pdf_path, num_retries |-> 1,
                                           success |-> TRUE])
    /\ db_metrics' = IF cursor = "free"
                     THEN Append(db_metrics, MetricRow(pdf_path, 1, TRUE))
                     ELSE db_metrics

\* main.py lines 125-145: the metric row, the extraction record, and return
\* True
ReportSuccess ==
    /\ entry = "cli"
    /\ step = "saved"
    /\ InsertMetric
    /\ AddExtraction(outcome.validated, completeness, TRUE, outcome.errors)
    /\ returned' = <<TRUE>>
    /\ step' = "done"
    /\ UNCHANGED <<doc, found, outcome, completeness, cases, evars, fvars>>
    /\ UNCHANGED <<entry, pdf_path, db_cases, cursor, pdf_files, successful,
                   failed, other>>

\* api/main.py lines 148-166: the metric row and the ExtractionResponse
ApiRespond ==
    /\ entry = "api"
    /\ step = "saved"
    /\ InsertMetric
    /\ returned' = <<"HTTP", 200>>
    /\ step' = "done"
    /\ UNCHANGED <<doc, found, outcome, completeness, cases, extractions, evars, fvars>>
    /\ UNCHANGED <<entry, pdf_path, db_cases, cursor, pdf_files, successful,
                   failed, other>>

NextPipeline ==
    \/ EmptyText
    \/ ApiNoText
    \/ CleanText
    \/ InitLlmRaises
    \/ ApiLlmRaises
    \/ \E e \in ExtractionResults : ExtractEntities(e)
    \/ ExtractionFailed
    \/ ApiExtractionFailed
    \/ ValidateFound
    \/ \E stored \in BOOLEAN : InsertCase(stored)
    \/ ReportSuccess
    \/ ApiRespond

SpecPipeline == InitPipeline /\ [][NextPipeline]_vars

\* ------------------------------------------------------------------------
\* two process_single_pdf calls of one LegalExtractionPipeline that run in
\* two threads: they share self.db (one sqlite3 connection and one cursor,
\* opened with check_same_thread=False) and self.metrics_calc
\* ------------------------------------------------------------------------

\* the locals of the call that is running
Locals ==
    [entry |-> entry, pdf_path |-> pdf_path, step |-> step, doc |-> doc, found |-> found,
     outcome |-> outcome, completeness |-> completeness, returned |-> returned]

\* what extract_entities hands back to the calls that run together
FewResults ==
    {Absent, ScenarioAFields,
     [k \in FieldKeys |-> IF k = "resumo_5_linhas" THEN <<"o","k">> ELSE None]}

InitConcurrent ==
    /\ ExtractorIdle
    /\ FunctionsIdle
    /\ entry = "cli"
    /\ pdf_path = "a.pdf"
    /\ step = "text"
    /\ doc \in Texts
    /\ found = Absent
    /\ outcome = NoReport
    /\ completeness = <<0, 1>>
    /\ returned = <<>>
    /\ other = [NoCall EXCEPT !.pdf_path = "b.pdf", !.step = "text", !.doc = doc]
    /\ cases = <<>>
    /\ metric_rows = <<>>
    /\ extractions = <<>>
    /\ db_cases = <<>>
    /\ db_metrics = <<>>
    /\ cursor = "free"
    /\ pdf_files = <<>>
    /\ successful = 0
    /\ failed = 0

\* the interpreter switches to the other thread
Switch ==
    /\ other.step \notin {"off", "done", "crashed"}
    /\ step # "crashed"
    /\ other' = Locals
    /\ entry' = other.entry
    /\ pdf_path' = other.pdf_path
    /\ step' = other.step
    /\ doc' = other.doc
    /\ found' = other.found
    /\ outcome' = other.outcome
    /\ completeness' = other.completeness
    /\ returned' = other.returned
    /\ UNCHANGED <<cases, metric_rows, extractions, db_cases, db_metrics, cursor,
                   pdf_files, successful, failed, evars, fvars>>

\* database.py line 107: insert_case enters self.cursor.execute while no
\* other call is inside a statement
EnterInsertCase ==
    /\ step = "validated"
    /\ cursor = "free"
    /\ cursor' = pdf_path
    /\ step' = "inserting"
    /\ UNCHANGED <<doc, found, outcome, completeness, cases, metric_rows,
                   extractions, returned, evars, fvars>>
    /\ UNCHANGED <<entry, pdf_path, db_cases, db_metrics, pdf_files, successful,
                   failed, other>>

\* database.py lines 107-135: the statement ends and is committed; when
\* another call took the cursor meanwhile, the statement fails with an
\* sqlite3.Error, insert_case returns False and nothing is written
LeaveInsertCase ==
    /\ step = "inserting"
    /\ cases' = Append(cases, [filename |-> pdf_path,
                               entities |-> outcome.validated,
                               completeness_score |-> completeness,
                               validation_errors |-> outcome.errors,
                               stored |-> cursor = pdf_path])
    /\ db_cases' = IF cursor = pdf_path
                   THEN InsertOrReplace(db_cases, pdf_path,
                                        CaseRow(outcome.validated, completeness,
                                                outcome.errors))
                   ELSE db_cases
    /\ cursor' = IF cursor = pdf_path THEN "free" ELSE cursor
    /\ step' = "saved"
    /\ UNCHANGED <<doc, found, outcome, completeness, metric_rows, extractions,
                   returned, evars, fvars>>
    /\ UNCHANGED <<entry, pdf_path, db_metrics, pdf_files, successful, failed, other>>

\* database.py line 107: insert_case enters self.cursor.execute while the
\* other call is inside a statement on the same cursor. What follows is one
\* of: this call's statement fails with an sqlite3.Error (Recursive use of
\* cursors not allowed) and insert_case returns False; this call takes the
\* cursor and the other call's statement fails; the interpreter is killed
EnterInsertCaseOnBusyCursor(what) ==
    /\ step = "validated"
    /\ cursor \notin {"free", pdf_path}
    /\ CASE what = "this fails" ->
              /\ cases' = Append(cases, [filename |-> pdf_path,
                                         entities |-> outcome.validated,
                                         completeness_score |-> completeness,
                                         validation_errors |-> outcome.errors,
                                         stored |-> FALSE])
              /\ step' = "saved"
              /\ UNCHANGED <<cursor, other>>
         [] what = "other fails" ->
              /\ cursor' = pdf_path
              /\ step' = "inserting"
              /\ UNCHANGED <<cases, other>>
         [] what = "killed" ->
              /\ step' = "crashed"
              /\ other' = [other EXCEPT !.step = "crashed"]
              /\ UNCHANGED <<cases, cursor>>
    /\ UNCHANGED <<doc, found, outcome, completeness, metric_rows, extractions,
                   returned, evars, fvars>>
    /\ UNCHANGED <<entry, pdf_path, db_cases, db_metrics, pdf_files, successful, failed>>

NextConcurrent ==
    \/ Switch
    \/ CleanText
    \/ InitLlmRaises
    \/ \E e \in FewResults : ExtractEntities(e)
    \/ ExtractionFailed
    \/ ValidateFound
    \/ EnterInsertCase
    \/ LeaveInsertCase
    \/ \E what \in {"this fails", "other fails", "killed"} :
          EnterInsertCaseOnBusyCursor(what)
    \/ ReportSuccess

SpecConcurrent == InitConcurrent /\ [][NextConcurrent]_vars

\* ------------------------------------------------------------------------
\* LegalExtractionPipeline.process_directory: the files of a directory, one
\* after the other
\* ------------------------------------------------------------------------

\* the most files a directory holds
MaxFiles == 3

\* main.py lines 181-197: the files found, none processed yet; with
\* recursive search two files can bear the same name
InitDirectory ==
    /\ ExtractorIdle
    /\ FunctionsIdle
    /\ PipelineIdle
    /\ entry = "cli"
    /\ pdf_path = ""
    /\ db_cases = <<>>
    /\ db_metrics = <<>>
    /\ cursor = "free"
    /\ pdf_files \in UNION {[1..n -> PdfNames] : n \in 1..MaxFiles}
    /\ successful = 0
    /\ failed = 0
    /\ other = NoCall

\* main.py lines 199-200: the loop takes the next file and calls
\* process_single_pdf on it; extract_text gives d
StartFile(d) ==
    /\ step = "off"
    /\ pdf_files # <<>>
    /\ pdf_path' = Head(pdf_files)
    /\ pdf_files' = Tail(pdf_files)
    /\ step' = "text"
    /\ doc' = d
    /\ found' = Absent
    /\ outcome' = NoReport
    /\ completeness' = <<0, 1>>
    /\ returned' = <<>>
    /\ UNCHANGED <<cases, metric_rows, extractions, evars, fvars>>
    /\ UNCHANGED <<entry, db_cases, db_metrics, cursor, successful, failed, other>>

\* main.py lines 200-205: the call has returned and is counted
Tally ==
    /\ step = "done"
    /\ IF returned = <<TRUE>>
       THEN successful' = successful + 1 /\ UNCHANGED failed
       ELSE failed' = failed + 1 /\ UNCHANGED successful
    /\ step' = "off"
    /\ UNCHANGED <<doc, found, outcome, completeness, cases, metric_rows, extractions,
                   returned, evars, fvars>>
    /\ UNCHANGED <<entry, pdf_path, db_cases, db_metrics, cursor, pdf_files, other>>

NextDirectory ==
    \/ \E d \in DocTexts : StartFile(d)
    \/ EmptyText
    \/ CleanText
    \/ InitLlmRaises
    \/ \E e \in FewResults : ExtractEntities(e)
    \/ ExtractionFailed
    \/ ValidateFound
    \/ \E stored \in BOOLEAN : InsertCase(stored)
    \/ ReportSuccess
    \/ Tally

SpecDirectory == InitDirectory /\ [][NextDirectory]_vars

\* ------------------------------------------------------------------------
\* Database: insert_case and insert_metric called on their own
\* ------------------------------------------------------------------------

\* the most calls made on the database
MaxCalls == 3

\* database.py lines 86-135: insert_case(filename, entities,
\* completeness_score=..., validation_errors=...); ok is False when sqlite
\* raised an sqlite3.Error, and then nothing is written
InsertCaseCall(filename, e, completeness_score, validation_errors, ok) ==
    /\ step = "off"
    /\ Len(cases) + Len(metric_rows) < MaxCalls
    /\ cases' = Append(cases, [filename |-> filename,
                               entities |-> e,
                               completeness_score |-> completeness_score,
                               validation_errors |-> validation_errors,
                               stored |-> ok])
    /\ db_cases' = IF ok
                   THEN InsertOrReplace(db_cases, filename,
                                        CaseRow(e, completeness_score, validation_errors))
                   ELSE db_cases
    /\ UNCHANGED <<step, doc, found, outcome, completeness, metric_rows, extractions,
                   returned, evars, fvars>>
    /\ UNCHANGED <<entry, pdf_path, db_metrics, cursor, pdf_files, successful, failed,
                   other>>

\* database.py lines 137-165: insert_metric(filename, time, num_retries,
\* success)
InsertMetricCall(filename, num_retries, success) ==
    /\ step = "off"
    /\ Len(cases) + Len(metric_rows) < MaxCalls
    /\ metric_rows' = Append(metric_rows, [filename |-> filename,
                                           num_retries |-> num_retries,
                                           success |-> success])
    /\ db_metrics' = Append(db_metrics, MetricRow(filename, num_retries, success))
    /\ UNCHANGED <<step, doc, found, outcome, completeness, cases, extractions,
                   returned, evars, fvars>>
    /\ UNCHANGED <<entry, pdf_path, db_cases, cursor, pdf_files, successful, failed,
                   other>>

NextDatabase ==
    \/ \E filename \in PdfNames, e \in FewResults \ {Absent},
          completeness_score \in {<<1, 8>>, <<8, 8>>},
          validation_errors \in {<<>>, <<<<"e","r","r","o","r">>>>}, ok \in BOOLEAN :
          InsertCaseCall(filename, e, completeness_score, validation_errors, ok)
    \/ \E filename \in PdfNames, success \in BOOLEAN :
          InsertMetricCall(filename, 1, success)

SpecDatabase == Init /\ [][NextDatabase]_vars

\* ------------------------------------------------------------------------
\* Properties of extract_entities
\* ------------------------------------------------------------------------

\* a FieldSet: a dict over the eight canonical fields
IsFieldSet(d) == DOMAIN d = FieldKeys

Last(q) == q[Len(q)]

AllRaised == Len(hist) >= 1 /\ \A i \in 1..Len(hist) : hist[i] = "raised"

\* C1: with retry enabled, when every model call so far raised, no exception
\* has reached the caller, no more than MAX_RETRIES calls were made, and once
\* extract_entities has returned it made exactly MAX_RETRIES calls and
\* returned None.
C1_AllCallsFail ==
    (retry /\ AllRaised) =>
        /\ pc # "raised"
        /\ pc \in {"after", "done"} => calls = Len(hist)
        /\ calls <= MAX_RETRIES
        /\ pc = "done" => (calls = MAX_RETRIES /\ result = Absent)

C1_Witness ==
    /\ pc = "done"
    /\ retry
    /\ AllRaised
    /\ calls = MAX_RETRIES
    /\ result = Absent

FourFailuresThenScenarioA ==
    /\ pc = "done"
    /\ hist = <<"raised", "raised", "raised", "raised", "returned">>
    /\ raw_text = ScenarioAReply

\* C2: the k-th wait is 2^(k-1) time units (the first is 1 and each next one
\* doubles); a wait follows a failed attempt that is not the last one and
\* nothing else, so there is one wait less than attempts started, also once
\* extract_entities has returned; and after four failed calls and the
\* Scenario A reply to the fifth the parsed fields are returned and the waits
\* were 1, 2, 4, 8.
C2_BackoffSchedule ==
    /\ pc # "idle" => Len(sleeps) = attempt - 1
    /\ \A k \in 1..Len(sleeps) : sleeps[k] = IF k = 1 THEN 1 ELSE 2 * sleeps[k - 1]
    /\ FourFailuresThenScenarioA =>
          (result = ScenarioAFields /\ sleeps = <<1, 2, 4, 8>>)

C2_Witness ==
    /\ FourFailuresThenScenarioA
    /\ result = ScenarioAFields
    /\ sleeps = <<1, 2, 4, 8>>

\* C3: as soon as a strategy of an attempt has yielded a FieldSet,
\* extract_entities has returned that FieldSet, with one model call per
\* attempt started and no wait after the attempt, whether or not every
\* field of the FieldSet is present.
C3_EarlyReturn ==
    (ran # <<>> /\ IsFieldSet(Last(ran).yield)) =>
        /\ pc = "done"
        /\ result = Last(ran).yield
        /\ Last(hist) = "returned"
        /\ calls = attempt
        /\ Len(sleeps) = attempt - 1

C3_Witness ==
    /\ pc = "done"
    /\ attempt = 3
    /\ ran # <<>>
    /\ IsFieldSet(Last(ran).yield)
    /\ \E k \in FieldKeys : Last(ran).yield[k] = None
    /\ \E k \in FieldKeys : Last(ran).yield[k] # None
    /\ result = Last(ran).yield

StrategyOrder == <<"strict", "embedded", "heuristic">>

\* C4: the strategies of one attempt run in the order strict, embedded,
\* heuristic, each one only after every earlier one yielded None; one model
\* call is made per attempt; and an attempt whose model call returned a
\* reply is counted as failed only once the heuristic has run as the third
\* strategy and yielded no FieldSet either.
C4_StrategyChain ==
    /\ Len(ran) <= Len(StrategyOrder)
    /\ \A i \in 1..Len(ran) :
          /\ ran[i].strategy = StrategyOrder[i]
          /\ i < Len(ran) => ran[i].yield = Absent
    /\ pc = "embedded" => Len(ran) = 1
    /\ pc = "heuristic" => Len(ran) = 2
    /\ pc # "idle" => calls = IF pc = "call" THEN attempt - 1 ELSE attempt
    /\ (pc = "after" /\ Last(hist) # "raised") =>
          /\ Len(ran) = Len(StrategyOrder)
          /\ ~IsFieldSet(Last(ran).yield)

C4_Witness ==
    /\ pc = "after"
    /\ Last(hist) = "no_parse"
    /\ Len(ran) = Len(StrategyOrder)
    /\ \A i \in 1..Len(ran) : ran[i].yield = Absent
    /\ raw_text # <<>>
    /\ calls = attempt

\* the current attempt has ended
AttemptEnded == Len(hist) = attempt

\* prose lines around a header/data pair: two consecutive lines with at
\* least 3 commas each, and a line with fewer
ProseAroundDensePair(lines) ==
    /\ \E i \in 1..(Len(lines) - 1) : IsDense(lines[i]) /\ IsDense(lines[i + 1])
    /\ \E j \in 1..Len(lines) : ~IsDense(lines[j])

\* C5: an attempt whose reply holds prose lines around a CSV-dense
\* header/data pair ends with extract_entities returning what the strict
\* parse of the extracted pair produces.
C5_EmbeddedFallback ==
    (AttemptEnded /\ ProseAroundDensePair(SplitLines(raw_text))) =>
        /\ Last(hist) = "returned"
        /\ result = ParseEmbedded(ExtractCsvBlock(raw_text))

\* a non-empty reply with no line of 3 or more commas
NoCsvStructure(raw) ==
    /\ raw # <<>>
    /\ \A i \in 1..Len(SplitLines(raw)) : ~IsDense(SplitLines(raw)[i])

\* C6: an attempt whose reply is non-empty and has no CSV-like structure ends
\* with the result of the heuristic on the document text: its FieldSet is
\* returned, and the attempt fails when it finds nothing.
C6_HeuristicFallback ==
    (AttemptEnded /\ NoCsvStructure(raw_text)) =>
        IF IsFieldSet(HeuristicExtract(text))
        THEN Last(hist) = "returned" /\ result = HeuristicExtract(text)
        ELSE Last(hist) # "returned"

\* ------------------------------------------------------------------------
\* Properties of the parser, the encoder and the validator
\* ------------------------------------------------------------------------

RoundTripDone == mode = "roundtrip" /\ stage = "entities"

\* C7 as stated: every FieldSet, encoded as the canonical header line and its
\* dict_to_csv_line and parsed by the strict strategy, comes back equal in
\* all eight fields.
C7_RoundTripEveryFieldSet == RoundTripDone => entities = input

\* a value the wire format carries as it is: no whitespace at either end and
\* no backslash directly followed by n
WireSafe(v) ==
    \/ v = None
    \/ /\ v # <<>>
       /\ ~IsSpace(v[1])
       /\ ~IsSpace(v[Len(v)])
       /\ ~Contains(v, <<"\\", "n">>)

\* C7: a FieldSet whose values have no whitespace at either end and hold no
\* backslash directly followed by n, encoded as the canonical header line
\* and its dict_to_csv_line and parsed by the strict strategy, comes back
\* equal in all eight fields, commas, double quotes and newlines included.
C7_RoundTrip ==
    (RoundTripDone /\ \A k \in FieldKeys : WireSafe(input[k])) => entities = input

C7_Witness ==
    /\ RoundTripDone
    /\ \E k \in FieldKeys : input[k] = <<"\"", "\n", ",">>
    /\ \A k \in FieldKeys : WireSafe(input[k])
    /\ entities = input

ReplyParsed == mode = "reply" /\ stage \in {"entities", "validated", "scored"}

\* no error of the report is about the outcome field
NoOutcomeError ==
    \A i \in 1..Len(report.errors) :
       ~MatchAt(report.errors[i], 1, FieldName("resultado") \o <<":">>)

ScenarioAScored == mode = "reply" /\ stage = "scored" /\ input = ScenarioACells

\* C8 as stated: the strict parse of the canonical header line and a line of
\* eight non-empty values gives all eight fields present, the i-th field
\* equal to the i-th value; and the validated Scenario A reply has
\* completeness 1 and no outcome error.
C8_FieldsEqualValues ==
    /\ ReplyParsed =>
          /\ IsFieldSet(entities)
          /\ \A i \in 1..Len(CSV_FIELDS) : entities[CSV_FIELDS[i]] = input[i]
    /\ ScenarioAScored => (score = <<8, 8>> /\ NoOutcomeError)

\* a cell read as it is written: no double quote, and more than whitespace
PlainCell(c) == ~Contains(c, <<"\"">>) /\ \E j \in 1..Len(c) : ~IsSpace(c[j])

\* C8: the strict parse of the canonical header line and a line of eight
\* comma-separated values that hold no double quote and are non-empty after
\* trimming gives all eight fields present, the i-th field equal to the
\* i-th value trimmed and with every backslash-n pair turned into a newline;
\* and the validated Scenario A reply has completeness 1 and no outcome
\* error.
C8_FieldsFromCells ==
    /\ (ReplyParsed /\ \A i \in 1..Len(CSV_FIELDS) : PlainCell(input[i])) =>
          /\ IsFieldSet(entities)
          /\ \A i \in 1..Len(CSV_FIELDS) :
                entities[CSV_FIELDS[i]] = Replace(Strip(input[i]), <<"\\", "n">>, <<"\n">>)
    /\ ScenarioAScored => (score = <<8, 8>> /\ NoOutcomeError)

C8_Witness ==
    /\ ScenarioAScored
    /\ entities = ScenarioAFields
    /\ score = <<8, 8>>
    /\ report.is_valid

\* the dict calculate_completeness was applied to
Scored == IF report = NoReport THEN entities ELSE report.validated

\* the canonical fields of d that are present and no placeholder in any
\* letter case
PresentFields(d) ==
    {k \in FieldKeys \cap DOMAIN d :
        /\ d[k] # None
        /\ Lower(d[k]) \notin {<<"n","u","l","l">>, <<"n","o","n","e">>,
                               <<"n","/","a">>, <<>>}}

\* C9: calculate_completeness returns the number of canonical fields that
\* are present and no placeholder in any letter case, over 8; the value lies
\* in [0,1]; and it is the value for the dict without its other keys.
C9_Completeness ==
    stage = "scored" =>
        /\ score = <<Cardinality(PresentFields(Scored)), 8>>
        /\ 0 <= score[1] /\ score[1] <= score[2]
        /\ score = CalculateCompleteness([k \in FieldKeys \cap DOMAIN Scored |-> Scored[k]])

C9_Witness ==
    /\ stage = "scored"
    /\ report = NoReport
    /\ "filename" \in DOMAIN entities
    /\ \E k \in FieldKeys \cap DOMAIN entities : entities[k] = <<"N","U","L","L">>
    /\ score = <<2, 8>>

\* the fields of the validated dict whose validator rejects their value
RejectedOf(d) == {k \in FieldKeys \cap DOMAIN d : ~Validator(k, d[k]).ok}

\* the entries of the error list that start with the field name and a colon
ErrorsAbout(k) ==
    {i \in 1..Len(report.errors) :
        MatchAt(report.errors[i], 1, FieldName(k) \o <<":", " ">>)}

\* C10: validate returns is_valid true exactly when its error list is empty;
\* the list holds one entry, starting with the field name, for every field
\* whose validator rejected, and nothing else; and the dict returned has
\* every key of the input, valid or not.
C10_Validate ==
    report # NoReport =>
        /\ report.is_valid <=> report.errors = <<>>
        /\ Len(report.errors) = Cardinality(RejectedOf(entities))
        /\ \A k \in FieldKeys :
              Cardinality(ErrorsAbout(k)) = IF k \in RejectedOf(entities) THEN 1 ELSE 0
        /\ DOMAIN report.validated = DOMAIN entities

C10_Witness ==
    /\ stage = "validated"
    /\ ~report.is_valid
    /\ Len(report.errors) = 6
    /\ "filename" \in DOMAIN report.validated
    /\ DOMAIN report.validated = DOMAIN entities

\* ------------------------------------------------------------------------
\* Properties of the field validators, read off what validate returned
\* ------------------------------------------------------------------------

\* absent, or one of "null", "none", "n/a", "" in any letter case
AbsentOrPlaceholder(v) ==
    \/ v = None
    \/ Lower(v) \in {<<"n","u","l","l">>, <<"n","o","n","e">>, <<"n","/","a">>, <<>>}

AllAbsent(d) == DOMAIN d = FieldKeys /\ \A k \in FieldKeys : d[k] = None

\* C11: of the fields validate was given, an absent or placeholder summary
\* makes validation fail with one summary error, an absent or placeholder
\* value of any other field produces no error; so the FieldSet with all
\* eight fields absent yields exactly one error, the summary one.
C11_SummaryRequired ==
    report # NoReport =>
        /\ \A k \in FieldKeys \cap DOMAIN entities :
              AbsentOrPlaceholder(entities[k]) =>
                 IF k = "resumo_5_linhas"
                 THEN Cardinality(ErrorsAbout(k)) = 1 /\ ~report.is_valid
                 ELSE ErrorsAbout(k) = {}
        /\ AllAbsent(entities) =>
              (Len(report.errors) = 1 /\ ErrorsAbout("resumo_5_linhas") = {1})

C11_Witness ==
    /\ stage = "validated"
    /\ AllAbsent(entities)
    /\ Len(report.errors) = 1
    /\ ErrorsAbout("resumo_5_linhas") = {1}
    /\ ~report.is_valid

\* "null", "none", "n/a" in any letter case, or the empty string
PlaceholderText(v) ==
    v # None /\ Lower(v) \in {<<"n","u","l","l">>, <<"n","o","n","e">>, <<"n","/","a">>, <<>>}

\* the validator of field k returned (ok=true, value=absent, "")
ShortCircuited(k) == report.validated[k] = None /\ ErrorsAbout(k) = {}

\* C12 as stated: each of the eight field validators answers a placeholder
\* value with (ok=true, value=absent, empty error message).
C12_EveryValidatorShortCircuits ==
    report # NoReport =>
        \A k \in FieldKeys \cap DOMAIN entities :
           PlaceholderText(entities[k]) => ShortCircuited(k)

\* f"{field}: {error}" of the required-summary failure
SummaryRequiredError ==
    FieldName("resumo_5_linhas") \o <<":", " ">>
    \o <<"R","e","s","u","m","o"," ","<e-acute>"," ","o","b","r","i","g","a","t","<o-acute>","r","i","o">>

\* C12: each of the seven field validators other than the summary one answers
\* a placeholder value with (ok=true, value=absent, empty error message)
\* before any rule of the field runs; the summary validator answers it with
\* (ok=false, value=absent, "Resumo <e-acute> obrigat<o-acute>rio"), also
\* before its line rules run.
C12_PlaceholderShortCircuit ==
    report # NoReport =>
        \A k \in FieldKeys \cap DOMAIN entities :
           PlaceholderText(entities[k]) =>
              IF k = "resumo_5_linhas"
              THEN /\ report.validated[k] = None
                   /\ \E i \in 1..Len(report.errors) :
                         /\ report.errors[i] = SummaryRequiredError
                         /\ ErrorsAbout(k) = {i}
              ELSE ShortCircuited(k)

C12_Witness ==
    /\ stage = "validated"
    /\ "resultado" \in DOMAIN entities
    /\ entities["resultado"] = <<"N","/","A">>
    /\ ShortCircuited("resultado")
    /\ report.is_valid

\* the values the equivalence names: "null", "None", "N/A" and ""
NamedPlaceholders == {<<"n","u","l","l">>, <<"N","o","n","e">>, <<"N","/","A">>, <<>>}

\* the fields of d that hold one of the named placeholders
PlaceholderFields(d) == {k \in FieldKeys \cap DOMAIN d : d[k] \in NamedPlaceholders}

\* C13: when a field of the dict holds "null", "None", "N/A" or "", validate
\* returned what it returns for the dict with that field absent (the same
\* is_valid, normalized fields and errors), and the completeness score is the
\* one of the dict with that field absent.
C13_PlaceholderEquivalence ==
    \A k \in PlaceholderFields(entities) :
       /\ report # NoReport => report = Validate(With(entities, k, None))
       /\ (stage = "scored" /\ report = NoReport) =>
             score = CalculateCompleteness(With(entities, k, None))
       /\ (stage = "scored" /\ report # NoReport) =>
             score = CalculateCompleteness(Validate(With(entities, k, None)).validated)

C13_Witness ==
    /\ stage = "scored"
    /\ report # NoReport
    /\ "tribunal" \in PlaceholderFields(entities)
    /\ entities["tribunal"] = <<"N","o","n","e">>
    /\ report.validated["tribunal"] = None
    /\ \E k \in FieldKeys \cap DOMAIN entities : report.validated[k] # None

\* C14: validating the normalized fields validate returned for a FieldSet
\* returns normalized fields identical to them.
C14_Idempotence ==
    (stage = "revalidated" /\ IsFieldSet(input)) => report.validated = entities

\* a term of the outcome vocabulary is a substring of the lower-cased value
HasOutcomeTerm(v) ==
    \E i \in 1..Len(VALID_RESULTS) : Contains(Lower(v), VALID_RESULTS[i])

\* the error about field k names every term of the outcome vocabulary
NamesVocabulary(k) ==
    \A e \in ErrorsAbout(k) : \A i \in 1..Len(VALID_RESULTS) :
       Contains(report.errors[e], VALID_RESULTS[i])

\* C15: a non-placeholder outcome is accepted and returned unchanged exactly
\* when a term of the outcome vocabulary is a substring of its lower-cased
\* form; otherwise the normalized outcome is absent, one outcome error that
\* names the vocabulary is recorded and is_valid is false.
C15_Outcome ==
    (report # NoReport /\ "resultado" \in DOMAIN entities
       /\ ~AbsentOrPlaceholder(entities["resultado"])) =>
        IF HasOutcomeTerm(entities["resultado"])
        THEN /\ report.validated["resultado"] = entities["resultado"]
             /\ ErrorsAbout("resultado") = {}
        ELSE /\ report.validated["resultado"] = None
             /\ Cardinality(ErrorsAbout("resultado")) = 1
             /\ NamesVocabulary("resultado")
             /\ ~report.is_valid

C15_Witness ==
    /\ stage = "validated"
    /\ "resultado" \in DOMAIN entities
    /\ entities["resultado"] = <<"m","a","y","b","e">>
    /\ report.validated["resultado"] = None
    /\ report.errors # <<>>
    /\ \A i \in 1..Len(report.errors) : i \in ErrorsAbout("resultado")

\* the non-empty lines of a summary, trimmed, in order
NonEmptyLines(v) ==
    SelectSeq([i \in 1..Len(Split(v, "\n")) |-> Strip(Split(v, "\n")[i])],
              LAMBDA ln : ln # <<>>)

\* C16: a present summary with more than MAX_SUMMARY_LINES non-empty lines is
\* accepted and normalized to exactly its first MAX_SUMMARY_LINES non-empty
\* lines in order, one with 1 to MAX_SUMMARY_LINES is accepted, one with none
\* fails; no validated summary has more than MAX_SUMMARY_LINES non-empty
\* lines.
C16_SummaryLines ==
    (report # NoReport /\ "resumo_5_linhas" \in DOMAIN entities) =>
        /\ ~AbsentOrPlaceholder(entities["resumo_5_linhas"]) =>
              IF Len(NonEmptyLines(entities["resumo_5_linhas"])) > MAX_SUMMARY_LINES
              THEN /\ ErrorsAbout("resumo_5_linhas") = {}
                   /\ report.validated["resumo_5_linhas"] # None
                   /\ NonEmptyLines(report.validated["resumo_5_linhas"])
                        = SubSeq(NonEmptyLines(entities["resumo_5_linhas"]),
                                 1, MAX_SUMMARY_LINES)
                   /\ Len(Split(report.validated["resumo_5_linhas"], "\n"))
                        = MAX_SUMMARY_LINES
              ELSE IF Len(NonEmptyLines(entities["resumo_5_linhas"])) >= 1
              THEN /\ ErrorsAbout("resumo_5_linhas") = {}
                   /\ report.validated["resumo_5_linhas"] # None
              ELSE /\ Cardinality(ErrorsAbout("resumo_5_linhas")) = 1
                   /\ report.validated["resumo_5_linhas"] = None
        /\ report.validated["resumo_5_linhas"] # None =>
              Len(NonEmptyLines(report.validated["resumo_5_linhas"])) <= MAX_SUMMARY_LINES

\* Scenario C: a summary of seven non-empty lines comes back as its first five
C16_Witness ==
    /\ stage = "validated"
    /\ "resumo_5_linhas" \in DOMAIN entities
    /\ Len(NonEmptyLines(entities["resumo_5_linhas"])) = 7
    /\ report.validated["resumo_5_linhas"] = <<"1","\n","2","\n","3","\n","4","\n","5">>
    /\ ErrorsAbout("resumo_5_linhas") = {}

\* whether v holds four decimal digits in a row, as the year of every layout
\* and of the numeric triplet does
HasYearDigits(v) ==
    \E i \in 1..(Len(v) - 3) : \A j \in i..(i + 3) : IsDigit(v[j])

\* C17: the decision type validator and the date validator add no error,
\* whatever the value; a decision type that is no placeholder, and a date that
\* is no placeholder and can match no layout and no numeric triplet, are
\* passed through unchanged.
C17_AdvisoryValidators ==
    report # NoReport =>
        /\ ErrorsAbout("tipo_decisao") = {}
        /\ ErrorsAbout("data_decisao") = {}
        /\ ("tipo_decisao" \in DOMAIN entities
              /\ ~AbsentOrPlaceholder(entities["tipo_decisao"])) =>
              report.validated["tipo_decisao"] = entities["tipo_decisao"]
        /\ ("data_decisao" \in DOMAIN entities
              /\ ~AbsentOrPlaceholder(entities["data_decisao"])
              /\ ~HasYearDigits(entities["data_decisao"])) =>
              report.validated["data_decisao"] = entities["data_decisao"]

\* the type "maybe" and the date "5/3/21" pass through a valid report
C17_Witness ==
    /\ stage = "validated"
    /\ DOMAIN entities = FieldKeys
    /\ \/ /\ entities["tipo_decisao"] = <<"m","a","y","b","e">>
          /\ report.validated["tipo_decisao"] = <<"m","a","y","b","e">>
       \/ /\ entities["data_decisao"] = <<"5","/","3","/","2","1">>
          /\ report.validated["data_decisao"] = <<"5","/","3","/","2","1">>
    /\ report.is_valid

\* the calendar date <<day, month, year>> that a date text written in one of
\* the six layouts names; <<>> for any other text
CalendarDateOf(v) ==
    CASE v \in {<<"5","/","3","/","2","0","2","1">>,
                <<"5","-","3","-","2","0","2","1">>,
                <<"2","0","2","1","-","0","3","-","0","5">>,
                <<"5",".","3",".","2","0","2","1">>,
                <<"5"," ","M","a","r","c","h"," ","2","0","2","1">>,
                <<"M","a","r","c","h"," ","5",","," ","2","0","2","1">>} -> <<5, 3, 2021>>
      [] v = <<"2","9","/","0","2","/","2","0","2","4">> -> <<29, 2, 2024>>
      [] v = <<"0","5","/","0","3","/","0","9","9","9">> -> <<5, 3, 999>>
      [] OTHER -> <<>>

\* n in decimal, padded with zeros on the left to w digits
ZeroPadded(n, w) ==
    [i \in 1..w |-> Decimal((n \div (10 ^ (w - i))) % 10)[1]]

\* a calendar date as zero-padded DD/MM/YYYY
DDMMYYYY(date) ==
    ZeroPadded(date[1], 2) \o <<"/">> \o ZeroPadded(date[2], 2) \o <<"/">>
    \o ZeroPadded(date[3], 4)

\* whether v has the shape of two digits, two digits and four digits around
\* slashes
IsDDMMYYYY(v) ==
    /\ Len(v) = 10
    /\ \A i \in {1, 2, 4, 5, 7, 8, 9, 10} : IsDigit(v[i])
    /\ v[3] = "/" /\ v[6] = "/"

\* C18: a date written in one of the six layouts normalizes to the same
\* calendar date as zero-padded DD/MM/YYYY, and a text that matches no layout
\* but holds a numeric triplet with a four-digit year normalizes to that
\* triplet zero-padded.
C18_DateCanonical ==
    (report # NoReport /\ "data_decisao" \in DOMAIN entities) =>
        /\ CalendarDateOf(entities["data_decisao"]) # <<>> =>
              report.validated["data_decisao"]
                 = DDMMYYYY(CalendarDateOf(entities["data_decisao"]))
        /\ entities["data_decisao"]
              = <<"s","e","e"," ","5","/","3","/","2","0","2","1"," ","o","k">> =>
              report.validated["data_decisao"]
                 = <<"0","5","/","0","3","/","2","0","2","1">>
        /\ entities["data_decisao"] = <<"3","1","/","0","2","/","2","0","2","0">> =>
              report.validated["data_decisao"]
                 = <<"3","1","/","0","2","/","2","0","2","0">>

\* the call reported the document as a success: process_single_pdf returned
\* True after one success record, extract_from_pdf answered with its
\* ExtractionResponse
ReportedSuccess ==
    IF entry = "cli"
    THEN /\ returned = <<TRUE>>
         /\ Len(extractions) = 1
         /\ extractions[1].success
    ELSE returned = <<"HTTP", 200>>

\* C19: whenever extract_entities returned a FieldSet, a finished
\* process_single_pdf or extract_from_pdf call has issued exactly one case
\* write, carrying the normalized fields, the completeness of the normalized
\* fields and the error list of validate, and has reported success, whether
\* validate found the FieldSet valid or not.
C19_ValidationNeverBlocks ==
    /\ (step = "done" /\ IsFieldSet(found)) =>
          /\ Len(cases) = 1
          /\ cases[1].entities = Validate(found).validated
          /\ cases[1].completeness_score
                = CalculateCompleteness(Validate(found).validated)
          /\ cases[1].validation_errors = Validate(found).errors
          /\ ReportedSuccess
          /\ Len(metric_rows) = 1 /\ metric_rows[1].success
    /\ Len(cases) <= 1
    /\ (cases # <<>>) => IsFieldSet(found)

\* a FieldSet that validate finds invalid is written and reported as success
C19_Witness ==
    /\ step = "done"
    /\ IsFieldSet(found)
    /\ ~outcome.is_valid
    /\ Len(outcome.errors) >= 1
    /\ Len(cases) = 1
    /\ cases[1].validation_errors = outcome.errors
    /\ returned = <<TRUE>>

\* a FieldSet with some but not all of its eight fields present
IsPartial(d) ==
    /\ IsFieldSet(d)
    /\ \E k \in FieldKeys : d[k] # None
    /\ \E k \in FieldKeys : d[k] = None

\* the call ended as a success with a completeness strictly below 1.0
SuccessBelowFull ==
    /\ ReportedSuccess
    /\ entry = "cli" => extractions[1].completeness = completeness
    /\ cases[1].completeness_score = completeness
    /\ completeness[1] < completeness[2]

\* the field is present, is no placeholder, and validate normalized it to
\* absent
RejectedPresent(k) ==
    ~AbsentOrPlaceholder(found[k]) /\ outcome.validated[k] = None

\* C20 as the spec words it: every partial FieldSet ends as a success with a
\* completeness strictly below 1.0 and a non-empty validation error list.
C20_PartialHasErrors ==
    (step = "done" /\ IsPartial(found)) =>
        /\ SuccessBelowFull
        /\ cases[1].validation_errors # <<>>

\* C20: every partial FieldSet ends as a success with a completeness
\* strictly below 1.0; its validation error list is non-empty exactly when
\* the summary is absent or a placeholder, or some present field is rejected.
C20_PartialFieldSet ==
    (step = "done" /\ IsPartial(found)) =>
        /\ SuccessBelowFull
        /\ entry = "cli" => extractions[1].errors = outcome.errors
        /\ cases[1].validation_errors = outcome.errors
        /\ outcome.errors # <<>> <=>
              \/ AbsentOrPlaceholder(found["resumo_5_linhas"])
              \/ \E k \in FieldKeys : RejectedPresent(k)

\* a partial FieldSet whose summary is present and valid ends as a success
\* with an empty error list
C20_Witness ==
    /\ step = "done"
    /\ IsPartial(found)
    /\ found["resumo_5_linhas"] # None
    /\ returned = <<TRUE>>
    /\ completeness = <<1, 8>>
    /\ extractions[1].errors = <<>>

\* extract_entities has returned None and the call has not yet acted on it
ExtractionGaveNothing == step = "extracted" /\ found = Absent

\* C21: when extract_entities returns absent, the next step of the call ends
\* it: process_single_pdf returns False after appending one failed entry to
\* the metrics calculator, extract_from_pdf answers HTTP 500; validate is not
\* run, and no case row and no metric row is written to the database.
C21_ExtractionFailure ==
    [][ExtractionGaveNothing =>
          /\ step' = "done"
          /\ outcome' = NoReport /\ outcome = NoReport
          /\ cases' = <<>> /\ db_cases' = <<>>
          /\ metric_rows' = <<>> /\ db_metrics' = <<>>
          /\ IF entry = "cli"
             THEN /\ returned' = <<FALSE>>
                  /\ Len(extractions') = Len(extractions) + 1
                  /\ ~extractions'[Len(extractions')].success
                  /\ extractions'[Len(extractions')].entities = Absent
             ELSE /\ returned' = <<"HTTP", 500>>
                  /\ extractions' = extractions]_vars

\* process_single_pdf has returned False for an extraction that gave nothing
C21_Witness ==
    /\ entry = "cli"
    /\ step = "done"
    /\ returned = <<FALSE>>
    /\ Len(extractions) = 1
    /\ extractions[1].errors
         = <<<<"F","a","l","h","a"," ","n","a"," ","e","x","t","r","a","<c-cedilla>","<a-tilde>","o">>>>
    /\ db_cases = <<>> /\ db_metrics = <<>>

\* what the call with the locals c leaves behind when it runs alone on an
\* empty database: its case row, its one metric row, its one metrics entry
\* and the value it returns
AsAlone(c) ==
    IF IsFieldSet(c.found)
    THEN /\ c.pdf_path \in DOMAIN db_cases
         /\ db_cases[c.pdf_path]
              = CaseRow(Validate(c.found).validated,
                        CalculateCompleteness(Validate(c.found).validated),
                        Validate(c.found).errors)
         /\ Cardinality({i \in 1..Len(db_metrics) :
                           db_metrics[i].filename = c.pdf_path}) = 1
         /\ Cardinality({i \in 1..Len(extractions) :
                           extractions[i].filename = c.pdf_path
                           /\ extractions[i].success}) = 1
         /\ c.returned = <<TRUE>>
    ELSE /\ c.pdf_path \notin DOMAIN db_cases
         /\ \A i \in 1..Len(db_metrics) : db_metrics[i].filename # c.pdf_path
         /\ Cardinality({i \in 1..Len(extractions) :
                           extractions[i].filename = c.pdf_path
                           /\ ~extractions[i].success}) = 1
         /\ c.returned = <<FALSE>>

\* C22: under every interleaving of two process_single_pdf calls on two
\* documents, neither call is cut short, and once both have returned, the
\* case row, the metric entries and the result of each document are what the
\* document gives when it is processed alone.
C22_ConcurrentAsAlone ==
    /\ step # "crashed"
    /\ (step = "done" /\ other.step = "done") => (AsAlone(Locals) /\ AsAlone(other))

\* C23: truncate_for_llm returns the text as it is when it has at most
\* 4 * max_tokens characters, and for a longer text returns at most
\* 4 * max_tokens characters.
C23_TokenBudget ==
    (mode = "truncate" /\ stage = "truncated") =>
        IF Len(input.text) <= 4 * input.max_tokens
        THEN wire = input.text
        ELSE Len(wire) <= 4 * input.max_tokens

\* C24: clean returns for every text, returns the empty text for the empty
\* text, and what it returns holds no two spaces in a row, no tab, and no
\* control character other than the newline.
C24_CleanCollapses ==
    (mode = "clean" /\ stage = "cleaned") =>
        /\ input = <<>> => wire = <<>>
        /\ \A i \in 1..Len(wire) : wire[i] \notin {"\t", "\r", "<NUL>"}
        /\ \A i \in 1..(Len(wire) - 1) : ~(wire[i] = " " /\ wire[i + 1] = " ")

\* the reply that echoed the prompt's column list has been parsed
EchoParsed == mode = "echo" /\ stage = "entities"

\* C25: a reply whose first line is the column list exactly as the built
\* prompt prints it, followed by one data line of eight non-empty values,
\* is parsed by the strict strategy into all eight fields, the i-th field
\* holding the i-th value.
C25_PromptHeaderParses ==
    (EchoParsed /\ \A i \in 1..Len(CSV_FIELDS) : PlainCell(input[i])) =>
       /\ IsFieldSet(entities)
       /\ \A i \in 1..Len(CSV_FIELDS) :
             entities[CSV_FIELDS[i]] = Replace(Strip(input[i]), <<"\\", "n">>, <<"\n">>)


\* _heuristic_extract has run on the document
HeuristicRan == mode = "heuristic" /\ stage # "input"

\* no label search and no date search of the document gave a non-empty value
NothingFound ==
    LET t == SquashWS(input)
        Nothing(r) == r.kind # "value" \/ r.v = <<>>
    IN  /\ \A r \in {FindAutor(t, Lower(t)), FindReu(t, Lower(t)),
                      FindAssunto(t, Lower(t)), FindTipo(t, Lower(t)),
                      FindResultado(t, Lower(t)), FindTribunal(t, Lower(t))} : Nothing(r)
        /\ FindDate(input) = None

\* C26: the heuristic strategy returns absent exactly when no label search
\* and no date search produced a non-empty value; every other result has
\* at least one field present and the summary absent, its validation is
\* never valid and its completeness is at most 7 of 8.
C26_HeuristicPartial ==
    HeuristicRan =>
       /\ entities = Absent <=> NothingFound
       /\ entities # Absent =>
             /\ IsFieldSet(entities)
             /\ \E k \in FieldKeys : entities[k] \notin {None, <<>>}
             /\ entities["resumo_5_linhas"] = None
       /\ stage \in {"validated", "scored"} => ~report.is_valid
       /\ stage = "scored" => score[1] <= 7 /\ score[2] = 8


\* how csv.DictReader fares on the two lines _parse_csv_output builds from a
\* reply with a non-blank line: "row" when it reads a data row, "stop" when
\* it finds none, "error" when it raises
ReaderOutcome(raw) ==
    LET lines == SelectSeq(Split(Strip(Replace(raw, <<"\r", "\n">>, <<"\n">>)), "\n"),
                           LAMBDA ln : Strip(ln) # <<>>)
        header_line == IF Len(lines) >= 2 THEN Strip(lines[1]) ELSE CanonicalHeader
        data_line == IF Len(lines) >= 2 THEN Strip(Join(Tail(lines), <<"\n">>))
                     ELSE Strip(lines[1])
    IN  DictReaderNext(header_line \o <<"\n">> \o data_line \o <<"\n">>).kind

\* the reply of the current attempt has a non-blank line
ReplyNotBlank == Strip(raw_text) # <<>>

\* the strict parse of the current attempt has run on a reply
StrictRan == Len(ran) >= 1 /\ pc \notin {"idle", "call"}

\* the attempt ended with extract_entities returning what the strict parse
\* yielded, a FieldSet
StrictReturned ==
    /\ IsFieldSet(ran[1].yield)
    /\ Len(ran) = 1
    /\ pc = "done"
    /\ result = ran[1].yield

\* C27 as stated: when the reply has a non-blank line and the CSV reader
\* does not raise, the strict strategy yields a FieldSet and extract_entities
\* returns it on that attempt; the embedded-block and heuristic strategies
\* are reached only when the reply is empty or whitespace or the CSV reader
\* raised.
C27_StrictAccepts ==
    /\ (StrictRan /\ ReplyNotBlank /\ ReaderOutcome(raw_text) # "error") => StrictReturned
    /\ (StrictRan /\ Len(ran) >= 2) =>
          (~ReplyNotBlank \/ ReaderOutcome(raw_text) = "error")

\* C27: when the reply has a non-blank line and the CSV reader reads a data
\* row under the header, the strict strategy yields a FieldSet, possibly
\* with every field absent, and extract_entities returns it on that
\* attempt; the embedded-block and heuristic strategies are reached only
\* when the reply is empty or whitespace, when the CSV reader raised, or
\* when it found no data row.
C27_StrictAcceptsRows ==
    /\ (StrictRan /\ ReplyNotBlank /\ ReaderOutcome(raw_text) = "row") => StrictReturned
    /\ (StrictRan /\ Len(ran) >= 2) =>
          (~ReplyNotBlank \/ ReaderOutcome(raw_text) \in {"error", "stop"})

\* a reply without any canonical column was returned as a FieldSet of
\* absent fields
C27_Witness ==
    /\ StrictRan /\ ReplyNotBlank /\ ReaderOutcome(raw_text) = "row"
    /\ StrictReturned
    /\ \A k \in FieldKeys : result[k] = None


\* the first validate pass over the dict rejected its summary
FirstPassRejectedSummary ==
    /\ "resumo_5_linhas" \in DOMAIN input
    /\ ~Validator("resumo_5_linhas", input["resumo_5_linhas"]).ok

\* C28: a validator that answers ok = false answers with an absent value, for
\* each of the eight fields; and a second validate pass over the normalized
\* fields of a first pass reports no error other than the summary-required
\* error, and reports that one exactly when the first pass rejected the
\* summary.
C28_RejectionErases ==
    /\ (mode = "validate" /\ stage = "validated") =>
          \A k \in FieldKeys \cap DOMAIN entities :
             ~Validator(k, entities[k]).ok =>
                (Validator(k, entities[k]).value = None /\ report.validated[k] = None)
    /\ (mode = "validate" /\ stage = "revalidated") =>
          /\ \A i \in 1..Len(report.errors) : report.errors[i] = SummaryRequiredError
          /\ (report.errors # <<>>) <=> FirstPassRejectedSummary

\* the first pass rejected the summary and the outcome of a dict; the second
\* pass reports the required summary alone
C28_Witness ==
    /\ mode = "validate" /\ stage = "revalidated"
    /\ FirstPassRejectedSummary
    /\ input["resumo_5_linhas"] # None
    /\ "resultado" \in RejectedOf(input)
    /\ entities["resultado"] = None
    /\ report.errors = <<SummaryRequiredError>>


\* a process_single_pdf call of the batch is under way or has just returned
CallOpen == step # "off"

\* the entries of the metrics calculator with the given success flag
EntriesWith(flag) == {i \in 1..Len(extractions) : extractions[i].success = flag}

\* the files of the directory: counted, under way, and still to come
FilesAccounted == successful + failed + (IF CallOpen THEN 1 ELSE 0) + Len(pdf_files)

\* the open call stands at a line of process_single_pdf from which it goes
\* on or returns to the loop: no exception has left it
BatchGoesOn ==
    /\ step \in {"text", "llm", "extracted", "validated", "saved", "done"}
    /\ step = "validated" => cursor = "free"
    /\ entry = "cli"

\* C29, at every moment of a batch: a call that has returned has appended
\* exactly one entry to the metrics calculator, with the file's name and
\* with the boolean it returned as the success flag, and a call that still
\* runs has appended none; the counts are the numbers of entries with
\* either flag; and an open call goes on or returns.
BatchAccounted ==
    /\ Len(extractions) = successful + failed + (IF step = "done" THEN 1 ELSE 0)
    /\ step = "done" =>
          /\ returned \in {<<TRUE>>, <<FALSE>>}
          /\ Last(extractions).success = returned[1]
          /\ Last(extractions).filename = pdf_path
    /\ step = "off" =>
          /\ Cardinality(EntriesWith(TRUE)) = successful
          /\ Cardinality(EntriesWith(FALSE)) = failed
    /\ CallOpen => BatchGoesOn

\* C29: every call of process_single_pdf appends exactly one entry to the
\* metrics calculator on every path, with the returned boolean as its
\* success flag; an exception inside one document does not end the batch;
\* and every file of the directory is counted once, so that when no file is
\* left successful + failed is the number of files processed.
C29_Accounting ==
    /\ []BatchAccounted
    /\ [][FilesAccounted' = FilesAccounted]_vars

\* a batch of three files is through: one call failed on an exception, a
\* later one succeeded
C29_Witness ==
    /\ pdf_files = <<>> /\ step = "off"
    /\ successful + failed = MaxFiles
    /\ \E i, j \in 1..Len(extractions) :
          /\ i < j
          /\ extractions[i].errors = <<<<"<str(e)>">>>>
          /\ extractions[j].success
    /\ successful >= 1 /\ failed >= 1


\* the insert_case calls that wrote a row for the filename, in order
StoredCalls(filename) ==
    SelectSeq(cases, LAMBDA c : c.stored /\ c.filename = filename)

\* the filenames insert_case has written a row for
StoredNames == {cases[i].filename : i \in {j \in 1..Len(cases) : cases[j].stored}}

\* the table holds one row per filename inserted, the row of the last
\* insert for it, and the metrics table the row of every call
StoreMatchesCalls ==
    /\ DOMAIN db_cases = StoredNames
    /\ Cardinality(DOMAIN db_cases) = Cardinality(StoredNames)
    /\ \A f \in StoredNames :
          /\ db_cases[f].fields = Last(StoredCalls(f)).entities
          /\ db_cases[f].completeness_score = Last(StoredCalls(f)).completeness_score
          /\ db_cases[f].validation_errors =
                ErrorsJson(Last(StoredCalls(f)).validation_errors)
    /\ Len(db_metrics) = Len(metric_rows)

\* C30: after any sequence of insert_case calls the case store holds one
\* record per distinct filename inserted, with the eight fields, the
\* completeness score and the error list of the last insert for that
\* filename; and insert_metric only appends: every step leaves the rows the
\* metrics table had in place.
C30_LastWriteWins ==
    /\ []StoreMatchesCalls
    /\ [][SubSeq(db_metrics', 1, Len(db_metrics)) = db_metrics]_vars

\* a.pdf was inserted twice with different fields, score and errors, and a
\* metric row was appended
C30_Witness ==
    /\ Len(StoredCalls("a.pdf")) = 2
    /\ StoredCalls("a.pdf")[1].entities # StoredCalls("a.pdf")[2].entities
    /\ StoredCalls("a.pdf")[1].completeness_score # StoredCalls("a.pdf")[2].completeness_score
    /\ StoredCalls("a.pdf")[1].validation_errors # <<>>
    /\ StoredCalls("a.pdf")[2].validation_errors = <<>>
    /\ DOMAIN db_cases = {"a.pdf"}
    /\ db_cases["a.pdf"].validation_errors = <<"NULL">>
    /\ Len(db_metrics) = 1

====
